---- MODULE Spec2Model ----
(***************************************************************************)
(* A model of the request-serving core of the feature-flag service:       *)
(*   - the canonical log (rust/feature-flags/src/handler/canonical_log.rs) *)
(*     with its task-local and thread-local storage;                       *)
(*   - the flag service (rust/feature-flags/src/flags/flag_service.rs)     *)
(*     with its negative cache of invalid tokens;                          *)
(*   - the retry loop of the personhog router                              *)
(*     (rust/personhog-router/src/backend/retry.rs);                       *)
(*   - the rate limiter of capture                                         *)
(*     (rust/capture/src/global_rate_limiter.rs).                          *)
(***************************************************************************)
EXTENDS Integers, Sequences, FiniteSets, TLC

VARIABLES
    CANONICAL_LOG,        \* task-local: per task, the stack of scoped logs (innermost last)
    RAYON_CANONICAL_LOG,  \* thread-local: per thread, Option<FlagsCanonicalLogLine>
    expect,               \* history: per task, the logs its scopes are expected to hold
    team_negative_cache,  \* FlagService.team_negative_cache: the tokens it holds
    pgTeams,              \* primary store: the tokens that have a team row
    cached,               \* cache tiers: the tokens the external writer has cached a team
                          \* for (a tier may still miss one: each evicts on its own)
    pending,              \* per task: the token of its verify_token_and_get_team call
                          \* that awaits get_team_from_cache_or_pg, or None
    flagsPg,              \* primary store: per team, the list of its flags
    flagsCache,           \* cache tiers: per team, the flag list the external writer has
                          \* cached for it, or None
    guards,               \* per pool thread: the RayonCanonicalLogGuard values alive on it
    invocation,           \* history: per pool thread, the fragment its slot is expected to hold
    merged,               \* history: the request's log as it was before any merge, and
                          \* the deltas merged into it, in order
    retry,                \* personhog-router: the with_retry call in progress
    limiter,              \* capture: the inner limiter of GlobalRateLimiter (its custom
                          \* keys and the log of the calls made to it)
    dispatch,             \* the pool invocation a request has dispatched: its owner, its
                          \* thread, how far it has run and the fragment it hands back
    returned,             \* history: per task, what its verify_token_and_get_team call
                          \* has returned and whether it has invoked the reader
    line,                 \* the log line the request handler owns once its scope has returned
    emitted,              \* the canonical_log_line records written by emit, in order
    last                  \* history: the operation that made the last step

logVars == <<CANONICAL_LOG, RAYON_CANONICAL_LOG, expect>>
fetchVars == <<flagsPg, flagsCache>>
flagVars == <<team_negative_cache, pgTeams, cached, pending, flagsPg, flagsCache>>
poolVars == <<guards, invocation>>
emitVars == <<line, emitted>>
otherVars == <<retry, limiter, dispatch, returned>>
restVars == <<guards, invocation, merged, line, emitted, retry, limiter, dispatch, returned>>
vars == <<CANONICAL_LOG, RAYON_CANONICAL_LOG, expect,
          team_negative_cache, pgTeams, cached, pending, flagsPg, flagsCache,
          guards, invocation, merged, line, emitted, retry, limiter, dispatch, returned,
          last>>

(***************************************************************************)
(* Bounds of the model.                                                    *)
(***************************************************************************)
\* scopes open at once, over all tasks
MaxScopes == 2
\* cap of the property_cache_hits counter
MaxHits == 1
\* capacity of the negative cache (NegativeCache::new(capacity, ttl))
NegCapacity == 1
\* guards alive at once on one pool thread (nested pool invocations)
MaxGuards == 2
\* deltas merged into the log of one request
MaxMerges == 2
\* characters of the short strings given to truncate_chars
MaxChars == 3
\* calls of emit on one log line
MaxEmits == 1
\* the largest max_retries of the retry configurations
MaxRetryLimit == 2
\* calls of is_limited on one limiter
MaxLimiterCalls == 2

Tasks == {"t1", "t2"}
\* the caller of code that runs in no async task (a pool worker's closure)
NoTask == "detached"
Callers == Tasks \cup {NoTask}
Threads == {"w1"}
TeamIds == {1, 2}
Results == {"done", "failed"}

\* Option<T>
None == <<>>
Some(v) == <<v>>

\* no with_retry call has been made
NoRetry == [pc |-> "idle"]

\* a limiter with no custom keys that has received no call
NoLimiter == [custom_keys |-> {}, calls |-> <<>>]

\* a request that has no pool invocation: `applied` is the history of the
\* mutations its invocation has made to a zeroed fragment
Idle == [phase |-> "idle", thread |-> "-", fragment |-> <<>>, cancelled |-> FALSE,
         applied |-> <<>>]

\* no pool invocation has been dispatched
NoDispatch == [t \in {"t1", "t2"} |-> Idle]

\* no verify_token_and_get_team call has returned
NoneReturned == [t \in Tasks |-> None]

\* history of the merges: none yet
NothingMerged == [into |-> None, deltas |-> <<>>]

Top(stack) == stack[Len(stack)]
Pop(stack) == SubSeq(stack, 1, Len(stack) - 1)

(***************************************************************************)
(* FlagsCanonicalLogLine                                                   *)
(***************************************************************************)
\* Default::default(); start_time is Instant::now(), one abstract instant
FlagsCanonicalLogLine_default ==
    [ request_id |-> <<>>,
      ip |-> "",
      start_time |-> "now",
      user_agent |-> None,
      lib |-> None,
      lib_version |-> None,
      api_version |-> None,
      team_id |-> None,
      distinct_id |-> None,
      device_id |-> None,
      anon_distinct_id |-> None,
      flags_evaluated |-> 0,
      flags_experience_continuity |-> 0,
      flags_device_id_bucketing |-> 0,
      flags_disabled |-> FALSE,
      quota_limited |-> FALSE,
      flags_cache_source |-> None,
      db_property_fetches |-> 0,
      person_queries |-> 0,
      group_queries |-> 0,
      static_cohort_queries |-> 0,
      person_query_time_ms |-> 0,
      group_query_time_ms |-> 0,
      cohort_query_time_ms |-> 0,
      property_cache_hits |-> 0,
      property_cache_misses |-> 0,
      person_properties_not_cached |-> FALSE,
      group_properties_not_cached |-> FALSE,
      cohorts_evaluated |-> 0,
      flags_errored |-> 0,
      dependency_graph_errors |-> 0,
      hash_key_override_status |-> None,
      rate_limited |-> FALSE,
      team_cache_source |-> None,
      http_status |-> 200,
      error_code |-> None ]

\* FlagsCanonicalLogLine::new(request_id, ip)
FlagsCanonicalLogLine_new(request_id, ip) ==
    [FlagsCanonicalLogLine_default EXCEPT !.request_id = request_id, !.ip = ip]

(***************************************************************************)
(* set_error. A FlagError is named by its variant; the payload of a        *)
(* variant (a message, an id) takes no part in its status or its code.     *)
(***************************************************************************)
\* the variants and what FlagError::status_code / FlagError::error_code give
\* for each, as the table of test_set_error_populates_fields lists them
ErrorTable ==
    { <<"ClientFacing_BadRequest", 400, "bad_request">>,
      <<"ClientFacing_Unauthorized", 401, "unauthorized">>,
      <<"ClientFacing_RateLimited", 429, "rate_limited">>,
      <<"ClientFacing_IpRateLimited", 429, "ip_rate_limited">>,
      <<"ClientFacing_TokenRateLimited", 429, "token_rate_limited">>,
      <<"ClientFacing_BillingLimit", 402, "billing_limit">>,
      <<"ClientFacing_ServiceUnavailable", 503, "service_unavailable">>,
      <<"Internal", 500, "internal_error">>,
      <<"RequestDecodingError", 400, "request_decoding_error">>,
      <<"MissingDistinctId", 400, "missing_distinct_id">>,
      <<"NoTokenError", 401, "missing_token">>,
      <<"TokenValidationError", 401, "invalid_token">>,
      <<"PersonalApiKeyInvalid", 401, "personal_api_key_invalid">>,
      <<"SecretApiTokenInvalid", 401, "secret_api_token_invalid">>,
      <<"NoAuthenticationProvided", 401, "no_authentication">>,
      <<"RowNotFound", 500, "row_not_found">>,
      <<"DataParsingErrorWithContext", 500, "flag_data_parsing_error">>,
      <<"DeserializeFiltersError", 500, "deserialize_filters_error">>,
      <<"RedisUnavailable", 503, "redis_unavailable">>,
      <<"DatabaseUnavailable", 503, "database_unavailable">>,
      <<"TimeoutError", 503, "timeout">>,
      <<"NoGroupTypeMappings", 500, "no_group_type_mappings">>,
      <<"DependencyNotFound", 500, "dependency_not_found">>,
      <<"DependencyCycle", 500, "dependency_cycle">>,
      <<"CohortFiltersParsingError", 500, "cohort_filters_parsing_error">>,
      <<"PersonNotFound", 503, "person_not_found">>,
      <<"PropertiesNotInCache", 503, "properties_not_in_cache">>,
      <<"StaticCohortMatchesNotCached", 503, "static_cohort_not_cached">>,
      <<"CacheMiss", 503, "cache_miss">>,
      <<"DataParsingError", 500, "data_parsing_error">>,
      <<"CookielessError_MissingProperty", 400, "cookieless_error">> }

FlagErrors == {row[1] : row \in ErrorTable}

\* FlagError::status_code()
status_code(error) == (CHOOSE row \in ErrorTable : row[1] = error)[2]

\* FlagError::error_code()
error_code(error) == (CHOOSE row \in ErrorTable : row[1] = error)[3]

set_error_keeps_code(log, error) ==
    [log EXCEPT !.http_status = status_code(error),
                !.error_code = IF @ = None THEN Some(error_code(error)) ELSE @]

\* FlagsCanonicalLogLine::set_error(&mut self, error)
set_error(log, error) ==
    [log EXCEPT !.http_status = status_code(error),
                !.error_code = Some(error_code(error))]

(***************************************************************************)
(* The closures handed to with_canonical_log, as data:                     *)
(*   set_some: |log| log.<field> = Some(val)                               *)
(*   add:      |log| log.<field> += val                                    *)
(***************************************************************************)
Mutators ==
    {[kind |-> "set_some", field |-> "team_id", val |-> v] : v \in TeamIds}
    \cup {[kind |-> "add", field |-> "property_cache_hits", val |-> 1]}

ApplyMut(m, log) ==
    IF m.kind = "add"
    THEN [log EXCEPT ![m.field] = @ + m.val]
    ELSE [log EXCEPT ![m.field] = Some(m.val)]

(***************************************************************************)
(* tokio::task_local! CANONICAL_LOG: a value per task; store[t] is the     *)
(* stack of the scopes task t is inside.                                   *)
(***************************************************************************)
task_local_shared(store, task, stack) ==
    [u \in DOMAIN store |-> stack]

task_local_set(store, task, stack) ==
    [store EXCEPT ![task] = stack]

\* the scopes the caller is inside: code that runs in no task has none
ScopeOf(store, caller) ==
    IF caller \in Tasks THEN store[caller] ELSE <<>>

(***************************************************************************)
(* with_canonical_log(f): what it does to the caller's scopes and to the   *)
(* current thread's slot.                                                  *)
(***************************************************************************)
with_canonical_log_thread_first(stack, slot, m) ==
    IF slot # None
    THEN [stack |-> stack, slot |-> Some(ApplyMut(m, slot[1]))]
    ELSE IF Len(stack) > 0
    THEN [stack |-> [stack EXCEPT ![Len(stack)] = ApplyMut(m, @)], slot |-> slot]
    ELSE [stack |-> stack, slot |-> slot]

with_canonical_log_creates(stack, slot, m) ==
    IF Len(stack) > 0
    THEN [stack |-> [stack EXCEPT ![Len(stack)] = ApplyMut(m, @)], slot |-> slot]
    ELSE IF slot # None
    THEN [stack |-> stack, slot |-> Some(ApplyMut(m, slot[1]))]
    ELSE [stack |-> stack, slot |-> Some(ApplyMut(m, FlagsCanonicalLogLine_default))]

with_canonical_log_task_only(stack, slot, m) ==
    IF Len(stack) > 0
    THEN [stack |-> [stack EXCEPT ![Len(stack)] = ApplyMut(m, @)], slot |-> slot]
    ELSE [stack |-> stack, slot |-> slot]

with_canonical_log(stack, slot, m) ==
    IF Len(stack) > 0
    THEN [stack |-> [stack EXCEPT ![Len(stack)] = ApplyMut(m, @)], slot |-> slot]
    ELSE IF slot # None
    THEN [stack |-> stack, slot |-> Some(ApplyMut(m, slot[1]))]
    ELSE [stack |-> stack, slot |-> slot]

(***************************************************************************)
(* install_rayon_canonical_log / take_rayon_canonical_log / guard drop     *)
(***************************************************************************)
install_rayon_canonical_log_keeps(slot) ==
    IF slot = None THEN Some(FlagsCanonicalLogLine_default) ELSE slot

install_rayon_canonical_log(slot) ==
    Some(FlagsCanonicalLogLine_default)

take_rayon_canonical_log_peeks(slot) ==
    [taken |-> slot, slot |-> slot]

\* cell.borrow_mut().take(): the value taken and what the cell holds after
take_rayon_canonical_log(slot) ==
    [taken |-> slot, slot |-> None]

RayonCanonicalLogGuard_drop_forgets(slot) ==
    slot

RayonCanonicalLogGuard_drop(slot) ==
    take_rayon_canonical_log(slot).slot

(***************************************************************************)
(* run_with_canonical_log(log, f)                                          *)
(***************************************************************************)
scope_reuses_outer(stack, log) ==
    IF Len(stack) > 0 THEN Append(stack, Top(stack)) ELSE Append(stack, log)

\* CANONICAL_LOG.scope(RefCell::new(log), ..): the scope is entered
scope(stack, log) ==
    Append(stack, log)

run_with_canonical_log_returns_default(stack, result) ==
    [ret |-> [result |-> result, log |-> FlagsCanonicalLogLine_default],
     stack |-> Pop(stack)]

\* f has completed with `result`: the log is taken out of the cell, the
\* scope ends and (result, log) is returned
run_with_canonical_log(stack, result) ==
    [ret |-> [result |-> result, log |-> Top(stack)],
     stack |-> Pop(stack)]

(***************************************************************************)
(* The canonical log's operations as steps of tasks and threads.           *)
(***************************************************************************)
OpenScopes == LET n[S \in SUBSET Tasks] ==
                      IF S = {} THEN 0
                      ELSE LET t == CHOOSE x \in S : TRUE
                           IN Len(CANONICAL_LOG[t]) + n[S \ {t}]
              IN n[Tasks]

\* the logs a handler may open a scope with
InitialLogs(t) ==
    { [FlagsCanonicalLogLine_new(<<t, Len(CANONICAL_LOG[t]) + 1>>, "10.0.0.1")
          EXCEPT !.team_id = tid, !.property_cache_hits = h] :
        tid \in {None, Some(2)}, h \in {0} }

ScopeEnter(t, log) ==
    /\ UNCHANGED restVars
    /\ OpenScopes < MaxScopes
    /\ CANONICAL_LOG' = task_local_set(CANONICAL_LOG, t, scope(CANONICAL_LOG[t], log))
    /\ expect' = [expect EXCEPT ![t] = Append(@, log)]
    /\ last' = [op |-> "scope_enter", who |-> t, thread |-> "-", init |-> log]
    /\ UNCHANGED flagVars
    /\ UNCHANGED RAYON_CANONICAL_LOG

ScopeExit(t, result) ==
    /\ UNCHANGED restVars
    /\ Len(CANONICAL_LOG[t]) > 0
    /\ LET r == run_with_canonical_log(CANONICAL_LOG[t], result)
       IN /\ CANONICAL_LOG' = task_local_set(CANONICAL_LOG, t, r.stack)
          /\ last' = [op |-> "scope_exit", who |-> t, thread |-> "-", result |-> result,
                      expected |-> Top(expect[t]), ret |-> r.ret]
    /\ expect' = [expect EXCEPT ![t] = Pop(@)]
    /\ UNCHANGED flagVars
    /\ UNCHANGED RAYON_CANONICAL_LOG

\* the counters stay within the model's cap
WithinCap(c, th, m) ==
    m.kind = "add" =>
        /\ \A i \in 1..Len(ScopeOf(CANONICAL_LOG, c)) :
               ScopeOf(CANONICAL_LOG, c)[i][m.field] + m.val <= MaxHits
        /\ RAYON_CANONICAL_LOG[th] # None =>
               RAYON_CANONICAL_LOG[th][1][m.field] + m.val <= MaxHits

\* code of caller c, running on thread th, calls with_canonical_log(m)
WithLog(c, th, m) ==
    /\ UNCHANGED restVars
    /\ WithinCap(c, th, m)
    /\ LET r == with_canonical_log(ScopeOf(CANONICAL_LOG, c), RAYON_CANONICAL_LOG[th], m)
       IN /\ CANONICAL_LOG' = IF c \in Tasks
                              THEN task_local_set(CANONICAL_LOG, c, r.stack)
                              ELSE CANONICAL_LOG
          /\ RAYON_CANONICAL_LOG' = [RAYON_CANONICAL_LOG EXCEPT ![th] = r.slot]
    /\ expect' = IF c \in Tasks /\ Len(expect[c]) > 0
                 THEN [expect EXCEPT ![c][Len(expect[c])] = ApplyMut(m, @)]
                 ELSE expect
    /\ last' = [op |-> "with_log", who |-> c, thread |-> th, mut |-> m,
                scoped |-> (c \in Tasks /\ Len(expect[c]) > 0),
                frag |-> (RAYON_CANONICAL_LOG[th] # None)]
    /\ UNCHANGED flagVars

Install(th) ==
    /\ UNCHANGED restVars
    /\ RAYON_CANONICAL_LOG' =
           [RAYON_CANONICAL_LOG EXCEPT ![th] = install_rayon_canonical_log(@)]
    /\ last' = [op |-> "install", who |-> NoTask, thread |-> th]
    /\ UNCHANGED flagVars
    /\ UNCHANGED <<CANONICAL_LOG, expect>>

Take(th) ==
    /\ UNCHANGED restVars
    /\ LET r == take_rayon_canonical_log(RAYON_CANONICAL_LOG[th])
       IN /\ RAYON_CANONICAL_LOG' = [RAYON_CANONICAL_LOG EXCEPT ![th] = r.slot]
          /\ last' = [op |-> "take", who |-> NoTask, thread |-> th]
    /\ UNCHANGED flagVars
    /\ UNCHANGED <<CANONICAL_LOG, expect>>

\* A guard is alive whenever the slot holds a fragment (install returns one
\* with it, and the last guard to drop empties the slot); the drop of a guard
\* over an empty slot changes nothing.
GuardDrop(th) ==
    /\ UNCHANGED restVars
    /\ RAYON_CANONICAL_LOG[th] # None
    /\ RAYON_CANONICAL_LOG' =
           [RAYON_CANONICAL_LOG EXCEPT ![th] = RayonCanonicalLogGuard_drop(@)]
    /\ last' = [op |-> "guard_drop", who |-> NoTask, thread |-> th]
    /\ UNCHANGED flagVars
    /\ UNCHANGED <<CANONICAL_LOG, expect>>

LogInit ==
    /\ guards = [th \in Threads |-> 0]
    /\ invocation = [th \in Threads |-> None]
    /\ merged = NothingMerged
    /\ line = None
    /\ emitted = <<>>
    /\ CANONICAL_LOG = [t \in Tasks |-> <<>>]
    /\ RAYON_CANONICAL_LOG = [th \in Threads |-> None]
    /\ expect = [t \in Tasks |-> <<>>]
    /\ team_negative_cache = {}
    /\ pgTeams = {}
    /\ cached = {}
    /\ pending = [t \in Tasks |-> None]
    /\ flagsPg = [id \in TeamIds |-> <<>>]
    /\ flagsCache = [id \in TeamIds |-> None]
    /\ retry = NoRetry
    /\ limiter = NoLimiter
    /\ dispatch = NoDispatch
    /\ returned = NoneReturned
    /\ last = [op |-> "init", who |-> NoTask, thread |-> "-"]

LogNext ==
    \/ \E t \in Tasks : \E log \in InitialLogs(t) : ScopeEnter(t, log)
    \/ \E t \in Tasks, result \in Results : ScopeExit(t, result)
    \/ \E c \in Callers, th \in Threads, m \in Mutators : WithLog(c, th, m)
    \/ \E th \in Threads : Install(th)
    \/ \E th \in Threads : Take(th)
    \/ \E th \in Threads : GuardDrop(th)

SpecLog == LogInit /\ [][LogNext]_vars

(***************************************************************************)
(* Re-entrant use: with_canonical_log(|log| { outer(log);                  *)
(* with_canonical_log(inner) }).  The log lives in a RefCell, and the      *)
(* RefMut that with_canonical_log takes for a mutator is alive while the   *)
(* mutator runs.                                                           *)
(***************************************************************************)
\* RefCell::borrow_mut on a cell that is (not) mutably borrowed already: it
\* panics with BorrowMutError, or gives the RefMut
RefCell_borrow_mut(borrowed) ==
    IF borrowed THEN [ok |-> FALSE, err |-> "BorrowMutError"]
    ELSE [ok |-> TRUE, val |-> "RefMut"]

\* with_canonical_log whose mutator applies `outer` and then calls
\* with_canonical_log(inner): the scopes and the slot when the call returns
\* or panics, and whether the cell is still borrowed then (the RefMut is
\* dropped on return and on unwinding)
with_canonical_log_reentrant(stack, slot, outer, inner) ==
    LET first == RefCell_borrow_mut(FALSE)
        second == RefCell_borrow_mut(first.ok)
    IN IF Len(stack) > 0
       THEN LET mid == [stack EXCEPT ![Len(stack)] = ApplyMut(outer, @)]
            IN IF second.ok
               THEN [stack |-> [mid EXCEPT ![Len(mid)] = ApplyMut(inner, @)],
                     slot |-> slot, panicked |-> FALSE, borrowed |-> FALSE]
               ELSE [stack |-> mid, slot |-> slot, panicked |-> TRUE,
                     borrowed |-> FALSE]
       ELSE IF slot # None
       THEN LET mid == ApplyMut(outer, slot[1])
            IN IF second.ok
               THEN [stack |-> stack, slot |-> Some(ApplyMut(inner, mid)),
                     panicked |-> FALSE, borrowed |-> FALSE]
               ELSE [stack |-> stack, slot |-> Some(mid), panicked |-> TRUE,
                     borrowed |-> FALSE]
       ELSE [stack |-> stack, slot |-> slot, panicked |-> FALSE, borrowed |-> FALSE]

\* code of caller c, running on thread th, makes the re-entrant call; a
\* panic unwinds the caller: the scopes of the task end without a return,
\* or the guard of the thread's invocation drops
ReentrantWithLog(c, th, outer, inner) ==
    /\ UNCHANGED restVars
    /\ WithinCap(c, th, outer)
    /\ \E r \in {with_canonical_log_reentrant(ScopeOf(CANONICAL_LOG, c),
                    RAYON_CANONICAL_LOG[th], outer, inner)} :
          /\ CANONICAL_LOG' =
                 IF c \notin Tasks THEN CANONICAL_LOG
                 ELSE IF r.panicked THEN task_local_set(CANONICAL_LOG, c, <<>>)
                 ELSE task_local_set(CANONICAL_LOG, c, r.stack)
          /\ RAYON_CANONICAL_LOG' =
                 [RAYON_CANONICAL_LOG EXCEPT ![th] =
                     IF r.panicked /\ ScopeOf(CANONICAL_LOG, c) = <<>>
                     THEN RayonCanonicalLogGuard_drop(r.slot)
                     ELSE r.slot]
          /\ expect' = IF c \in Tasks /\ r.panicked
                       THEN [expect EXCEPT ![c] = <<>>]
                       ELSE expect
          /\ last' = [op |-> "with_log_reentrant", who |-> c, thread |-> th,
                      scoped |-> (ScopeOf(CANONICAL_LOG, c) # <<>>),
                      frag |-> (RAYON_CANONICAL_LOG[th] # None),
                      panicked |-> r.panicked, borrowed |-> r.borrowed]
    /\ UNCHANGED flagVars

ReentrantNext ==
    \/ \E t \in Tasks : \E log \in InitialLogs(t) : ScopeEnter(t, log)
    \/ \E t \in Tasks, result \in Results : ScopeExit(t, result)
    \/ \E c \in Callers, th \in Threads, m \in Mutators : WithLog(c, th, m)
    \/ \E th \in Threads : Install(th)
    \/ \E th \in Threads : GuardDrop(th)
    \/ \E c \in Callers, th \in Threads, outer \in Mutators, inner \in Mutators :
           ReentrantWithLog(c, th, outer, inner)

SpecReentrant == LogInit /\ [][ReentrantNext]_vars

(***************************************************************************)
(* The flag service: values                                                *)
(***************************************************************************)
Tokens == {"phc_a", "phc_b"}

\* Result<T, FlagError>
Ok(v) == [ok |-> TRUE, val |-> v]
Err(e) == [ok |-> FALSE, err |-> e]

\* the team row of a token
TeamOf(token) == [id |-> IF token = "phc_a" THEN 1 ELSE 2, api_token |-> token]

\* serde_json::to_value(&team): the team as a JSON object
to_value(team) == [json |-> "object", id |-> team.id, api_token |-> team.api_token]

\* a payload of a cache tier that is no team
MalformedValue == [json |-> "string"]

\* Team::from_hypercache_value(data)
from_hypercache_value(data) ==
    IF data.json = "object"
    THEN Ok([id |-> data.id, api_token |-> data.api_token])
    ELSE Err("DataParsingError")

\* FlagError::is_token_not_found(): the primary store has no such token
is_token_not_found(e) == e = "RowNotFound"

\* CacheSource::as_log_str()
as_log_str(source) ==
    CASE source = "Redis" -> "redis"
      [] source = "S3" -> "s3"
      [] source = "Fallback" -> "fallback"

\* what a cache tier answers to one read, and what the primary store does
TierOutcomes == {"hit", "malformed", "miss", "unavailable"}
PgFaults == {"none", "unavailable", "timeout"}

\* a tier answers with a team only for a token it holds
TierCan(token, outcome) == outcome = "hit" => token \in cached

\* a backend that is not read has no outcome: the second tier is read when
\* the first passes, the primary store when both pass, and the team is
\* serialized when the primary store has returned it
Answers(outcome) == outcome \in {"hit", "malformed"}
OutcomesRead(r1, r2, fault, serOk) ==
    /\ Answers(r1) => r2 = "miss"
    /\ (Answers(r1) \/ Answers(r2)) => fault = "none"
    /\ (Answers(r1) \/ Answers(r2) \/ fault # "none") => serOk

(***************************************************************************)
(* NegativeCache: a bounded set of keys whose entries expire               *)
(***************************************************************************)
NegativeCache_contains(cache, key) == key \in cache

\* the entries the cache may drop to make room for `key`
NegativeCache_victims(cache, key) ==
    IF Cardinality(cache \cup {key}) <= NegCapacity THEN {key} ELSE cache \ {key}

NegativeCache_insert(cache, key, victim) ==
    IF Cardinality(cache \cup {key}) <= NegCapacity
    THEN cache \cup {key}
    ELSE (cache \ {victim}) \cup {key}

(***************************************************************************)
(* get_team_from_cache_or_pg                                               *)
(***************************************************************************)
\* Team::from_pg(pg_client, token)
Team_from_pg(token, pg, fault) ==
    IF fault = "unavailable" THEN Err("DatabaseUnavailable")
    ELSE IF fault = "timeout" THEN Err("TimeoutError")
    ELSE IF token \in pg THEN Ok(TeamOf(token))
    ELSE Err("RowNotFound")

\* the fallback closure: the team is read from the primary store, the read is
\* counted and the team is serialized to the cache's format
team_fallback(token, pg, fault, serOk) ==
    LET r == Team_from_pg(token, pg, fault)
    IN IF ~r.ok THEN [res |-> r, metrics |-> <<>>]
       ELSE IF serOk
            THEN [res |-> Ok(Some(to_value(r.val))),
                  metrics |-> << <<"DB_TEAM_READS_COUNTER", "">> >>]
            ELSE [res |-> Err("Internal"),
                  metrics |-> << <<"DB_TEAM_READS_COUNTER", "">> >>]

\* HyperCacheReader::get_with_source_or_fallback: the first tier that holds a
\* payload answers; a miss or an unavailable tier passes to the next one and
\* at last to the fallback. `ops` counts the backends that were read.
get_with_source_or_fallback(token, r1, r2, pg, fault, serOk) ==
    IF Answers(r1)
    THEN [res |-> Ok(IF r1 = "hit" THEN to_value(TeamOf(token)) ELSE MalformedValue),
          source |-> "Redis", metrics |-> <<>>, ops |-> 1]
    ELSE IF Answers(r2)
    THEN [res |-> Ok(IF r2 = "hit" THEN to_value(TeamOf(token)) ELSE MalformedValue),
          source |-> "S3", metrics |-> <<>>, ops |-> 2]
    ELSE LET f == team_fallback(token, pg, fault, serOk)
         IN [res |-> IF f.res.ok THEN Ok(f.res.val[1]) ELSE f.res,
             source |-> "Fallback", metrics |-> f.metrics, ops |-> 3]

get_team_from_cache_or_pg_counts_hit(token, r1, r2, pg, fault, serOk, stack, slot) ==
    LET rd == get_with_source_or_fallback(token, r1, r2, pg, fault, serOk)
        quiet == [source |-> rd.source, stack |-> stack, slot |-> slot,
                  metrics |-> rd.metrics, ops |-> rd.ops]
    IN IF ~rd.res.ok THEN [res |-> rd.res] @@ quiet
       ELSE LET team == from_hypercache_value(rd.res.val)
                lg == with_canonical_log(stack, slot,
                          [kind |-> "set_some", field |-> "team_cache_source",
                           val |-> as_log_str(rd.source)])
            IN IF ~team.ok THEN [res |-> team] @@ quiet
               ELSE [res |-> team, source |-> rd.source,
                     stack |-> lg.stack, slot |-> lg.slot,
                     metrics |-> Append(rd.metrics, <<"TEAM_CACHE_HIT_COUNTER", "true">>),
                     ops |-> rd.ops]

\* the error of the reader is returned as it is (`?`), then the error of the
\* parser; only then the source is logged and the hit or miss is counted
get_team_from_cache_or_pg(token, r1, r2, pg, fault, serOk, stack, slot) ==
    LET rd == get_with_source_or_fallback(token, r1, r2, pg, fault, serOk)
        quiet == [source |-> rd.source, stack |-> stack, slot |-> slot,
                  metrics |-> rd.metrics, ops |-> rd.ops]
    IN IF ~rd.res.ok THEN [res |-> rd.res] @@ quiet
       ELSE LET team == from_hypercache_value(rd.res.val)
                cache_hit == IF rd.source # "Fallback" THEN "true" ELSE "false"
                lg == with_canonical_log(stack, slot,
                          [kind |-> "set_some", field |-> "team_cache_source",
                           val |-> as_log_str(rd.source)])
            IN IF ~team.ok THEN [res |-> team] @@ quiet
               ELSE [res |-> team, source |-> rd.source,
                     stack |-> lg.stack, slot |-> lg.slot,
                     metrics |-> Append(rd.metrics, <<"TEAM_CACHE_HIT_COUNTER", cache_hit>>),
                     ops |-> rd.ops]

(***************************************************************************)
(* verify_token_and_get_team                                               *)
(***************************************************************************)
TokenNotFoundMetric == <<"TOKEN_VALIDATION_ERRORS_COUNTER", "token_not_found">>

verify_token_and_get_team_check_skipped(cache, token, stack, slot) ==
    [hit |-> FALSE, stack |-> stack, slot |-> slot]

verify_token_and_get_team_check_sets_error(cache, token, stack, slot) ==
    IF NegativeCache_contains(cache, token)
    THEN LET lg == with_canonical_log(stack, slot,
                       [kind |-> "set_some", field |-> "team_cache_source",
                        val |-> "negative_cache"])
             lg2 == with_canonical_log(lg.stack, lg.slot,
                       [kind |-> "set_some", field |-> "error_code",
                        val |-> "invalid_token"])
         IN [hit |-> TRUE, res |-> Err("TokenValidationError"),
             stack |-> lg2.stack, slot |-> lg2.slot,
             metrics |-> << <<"TEAM_NEGATIVE_CACHE_HIT_COUNTER", "">>,
                            TokenNotFoundMetric >>,
             ops |-> 0]
    ELSE [hit |-> FALSE, stack |-> stack, slot |-> slot]

\* the check of the negative cache that opens the function: on a hit the
\* source is logged, the hit and the validation error are counted and the
\* function returns without a lookup
verify_token_and_get_team_check(cache, token, stack, slot) ==
    IF NegativeCache_contains(cache, token)
    THEN LET lg == with_canonical_log(stack, slot,
                       [kind |-> "set_some", field |-> "team_cache_source",
                        val |-> "negative_cache"])
         IN [hit |-> TRUE, res |-> Err("TokenValidationError"),
             stack |-> lg.stack, slot |-> lg.slot,
             metrics |-> << <<"TEAM_NEGATIVE_CACHE_HIT_COUNTER", "">>,
                            TokenNotFoundMetric >>,
             ops |-> 0]
    ELSE [hit |-> FALSE, stack |-> stack, slot |-> slot]

verify_token_and_get_team_match_inserts_always(cache, token, r, victim) ==
    IF r.ok THEN [res |-> Ok(r.val), cache |-> cache, metrics |-> <<>>]
    ELSE [res |-> Err("TokenValidationError"),
          cache |-> NegativeCache_insert(cache, token, victim),
          metrics |-> << TokenNotFoundMetric >>]

verify_token_and_get_team_match_inserts_never(cache, token, r, victim) ==
    IF r.ok THEN [res |-> Ok(r.val), cache |-> cache, metrics |-> <<>>]
    ELSE [res |-> Err("TokenValidationError"), cache |-> cache,
          metrics |-> IF is_token_not_found(r.err)
                      THEN << TokenNotFoundMetric >> ELSE <<>>]

verify_token_and_get_team_match_keeps_error(cache, token, r, victim) ==
    IF r.ok THEN [res |-> Ok(r.val), cache |-> cache, metrics |-> <<>>]
    ELSE IF is_token_not_found(r.err)
    THEN [res |-> Err("TokenValidationError"),
          cache |-> NegativeCache_insert(cache, token, victim),
          metrics |-> << TokenNotFoundMetric >>]
    ELSE [res |-> Err(r.err), cache |-> cache, metrics |-> <<>>]

\* the match on the result r of get_team_from_cache_or_pg
verify_token_and_get_team_match(cache, token, r, victim) ==
    IF r.ok THEN [res |-> Ok(r.val), cache |-> cache, metrics |-> <<>>]
    ELSE IF is_token_not_found(r.err)
    THEN [res |-> Err("TokenValidationError"),
          cache |-> NegativeCache_insert(cache, token, victim),
          metrics |-> << TokenNotFoundMetric >>]
    ELSE [res |-> Err("TokenValidationError"), cache |-> cache, metrics |-> <<>>]

(***************************************************************************)
(* The flag service's operations as steps of tasks, and its environment.   *)
(***************************************************************************)
\* task t, on thread th, calls verify_token_and_get_team(token) and runs to
\* the return of the negative-cache hit or to the await of the lookup
VerifyCheck(t, th, token) ==
    /\ UNCHANGED restVars
    /\ UNCHANGED fetchVars
    /\ pending[t] = None
    /\ \E c \in {verify_token_and_get_team_check(team_negative_cache, token,
                    CANONICAL_LOG[t], RAYON_CANONICAL_LOG[th])} :
          /\ CANONICAL_LOG' = task_local_set(CANONICAL_LOG, t, c.stack)
          /\ RAYON_CANONICAL_LOG' = [RAYON_CANONICAL_LOG EXCEPT ![th] = c.slot]
          /\ pending' = [pending EXCEPT ![t] = IF c.hit THEN None ELSE Some(token)]
          /\ last' = IF c.hit
                     THEN [op |-> "verify", step |-> "check", who |-> t, thread |-> th,
                           token |-> token, res |-> c.res, cause |-> "negative_cache",
                           source |-> "none", metrics |-> c.metrics, ops |-> c.ops,
                           negBefore |-> team_negative_cache]
                     ELSE [op |-> "verify_pending", step |-> "check", who |-> t,
                           thread |-> th, token |-> token,
                           negBefore |-> team_negative_cache]
    /\ UNCHANGED <<team_negative_cache, pgTeams, cached, expect>>

\* the lookup of task t completes: the tiers answer r1 and r2, the primary
\* store is in state `fault`, and the function runs to its return
VerifyLookup(t, th, r1, r2, fault, serOk) ==
    /\ UNCHANGED restVars
    /\ UNCHANGED fetchVars
    /\ pending[t] # None
    /\ TierCan(pending[t][1], r1) /\ TierCan(pending[t][1], r2)
    /\ OutcomesRead(r1, r2, fault, serOk)
    /\ \E token \in {pending[t][1]} :
       \E g \in {get_team_from_cache_or_pg(token, r1, r2, pgTeams, fault, serOk,
                    CANONICAL_LOG[t], RAYON_CANONICAL_LOG[th])} :
       \E victim \in NegativeCache_victims(team_negative_cache, token) :
       \E m \in {verify_token_and_get_team_match(team_negative_cache, token,
                         g.res, victim)} :
               /\ team_negative_cache' = m.cache
               /\ CANONICAL_LOG' = task_local_set(CANONICAL_LOG, t, g.stack)
               /\ RAYON_CANONICAL_LOG' = [RAYON_CANONICAL_LOG EXCEPT ![th] = g.slot]
               /\ last' = [op |-> "verify", step |-> "lookup", who |-> t, thread |-> th,
                           token |-> token, res |-> m.res,
                           cause |-> IF g.res.ok THEN "none" ELSE g.res.err,
                           source |-> g.source, metrics |-> g.metrics \o m.metrics,
                           ops |-> g.ops, negBefore |-> team_negative_cache]
    /\ pending' = [pending EXCEPT ![t] = None]
    /\ UNCHANGED <<pgTeams, cached, expect>>

\* the environment: teams are created and deleted in the primary store, the
\* external writer fills and clears the cache tiers, negative entries expire
TeamCreated(token) ==
    /\ UNCHANGED restVars
    /\ UNCHANGED fetchVars
    /\ token \notin pgTeams
    /\ pgTeams' = pgTeams \cup {token}
    /\ last' = [op |-> "team_created", who |-> NoTask, thread |-> "-", token |-> token]
    /\ UNCHANGED <<logVars, team_negative_cache, cached, pending>>

TeamDeleted(token) ==
    /\ UNCHANGED restVars
    /\ UNCHANGED fetchVars
    /\ token \in pgTeams
    /\ pgTeams' = pgTeams \ {token}
    /\ last' = [op |-> "team_deleted", who |-> NoTask, thread |-> "-", token |-> token]
    /\ UNCHANGED <<logVars, team_negative_cache, cached, pending>>

CacheWrite(token) ==
    /\ UNCHANGED restVars
    /\ UNCHANGED fetchVars
    /\ token \notin cached
    /\ cached' = cached \cup {token}
    /\ last' = [op |-> "cache_write", who |-> NoTask, thread |-> "-", token |-> token]
    /\ UNCHANGED <<logVars, team_negative_cache, pgTeams, pending>>

CacheRemove(token) ==
    /\ UNCHANGED restVars
    /\ UNCHANGED fetchVars
    /\ token \in cached
    /\ cached' = cached \ {token}
    /\ last' = [op |-> "cache_remove", who |-> NoTask, thread |-> "-", token |-> token]
    /\ UNCHANGED <<logVars, team_negative_cache, pgTeams, pending>>

NegativeCacheExpire(token) ==
    /\ UNCHANGED restVars
    /\ UNCHANGED fetchVars
    /\ token \in team_negative_cache
    /\ team_negative_cache' = team_negative_cache \ {token}
    /\ last' = [op |-> "expire", who |-> NoTask, thread |-> "-", token |-> token]
    /\ UNCHANGED <<logVars, pgTeams, cached, pending>>

\* the handler of task t, whose verify_token_and_get_team call has just
\* failed, records the error it received on the log of its scope
HandlerSetError(t) ==
    /\ UNCHANGED restVars
    /\ last.op = "verify" /\ last.who = t
    /\ ~last.res.ok
    /\ CANONICAL_LOG[t] # <<>>
    /\ \E log \in {set_error(Top(CANONICAL_LOG[t]), last.res.err)} :
          last' = [op |-> "handler_set_error", who |-> t, thread |-> last.thread,
                   token |-> last.token, cause |-> last.cause, error |-> last.res.err,
                   http_status |-> log.http_status, error_code |-> log.error_code]
    /\ UNCHANGED <<logVars, flagVars>>

\* task t1 serves a request inside a run_with_canonical_log scope, task t2
\* runs outside any scope
FlagInit ==
    /\ guards = [th \in Threads |-> 0]
    /\ invocation = [th \in Threads |-> None]
    /\ merged = NothingMerged
    /\ line = None
    /\ emitted = <<>>
    /\ CANONICAL_LOG = [t \in Tasks |->
           IF t = "t1" THEN << FlagsCanonicalLogLine_new(<<t, 1>>, "10.0.0.1") >>
           ELSE <<>>]
    /\ RAYON_CANONICAL_LOG = [th \in Threads |-> None]
    /\ expect = [t \in Tasks |-> <<>>]
    /\ team_negative_cache = {}
    /\ pgTeams = {}
    /\ cached = {}
    /\ pending = [t \in Tasks |-> None]
    /\ flagsPg = [id \in TeamIds |-> <<>>]
    /\ flagsCache = [id \in TeamIds |-> None]
    /\ retry = NoRetry
    /\ limiter = NoLimiter
    /\ dispatch = NoDispatch
    /\ returned = NoneReturned
    /\ last = [op |-> "init", who |-> NoTask, thread |-> "-"]

FlagNext ==
    \/ \E t \in Tasks, th \in Threads, token \in Tokens : VerifyCheck(t, th, token)
    \/ \E t \in Tasks, th \in Threads, r1 \in TierOutcomes, r2 \in TierOutcomes,
          fault \in PgFaults, serOk \in BOOLEAN :
           VerifyLookup(t, th, r1, r2, fault, serOk)
    \/ \E token \in Tokens : TeamCreated(token)
    \/ \E token \in Tokens : TeamDeleted(token)
    \/ \E token \in Tokens : CacheWrite(token)
    \/ \E token \in Tokens : CacheRemove(token)
    \/ \E token \in Tokens : NegativeCacheExpire(token)
    \/ \E t \in Tasks : HandlerSetError(t)

SpecFlag == FlagInit /\ [][FlagNext]_vars

(***************************************************************************)
(* Concurrent verify_token_and_get_team calls for one token that no        *)
(* backend knows: each task makes one call; a call is two steps, the check *)
(* of the negative cache and, after the await, the rest.                   *)
(***************************************************************************)
UnknownToken == "phc_a"

\* task t calls verify_token_and_get_team(UnknownToken) and runs to the
\* return of the negative-cache hit or to the await of the lookup
ConcurrentCheck(t) ==
    /\ pending[t] = None
    /\ returned[t] = None
    /\ \E c \in {verify_token_and_get_team_check(team_negative_cache, UnknownToken,
                    CANONICAL_LOG[t], RAYON_CANONICAL_LOG["w1"])} :
          /\ CANONICAL_LOG' = task_local_set(CANONICAL_LOG, t, c.stack)
          /\ RAYON_CANONICAL_LOG' = [RAYON_CANONICAL_LOG EXCEPT !["w1"] = c.slot]
          /\ pending' = [pending EXCEPT ![t] = IF c.hit THEN None ELSE Some(UnknownToken)]
          /\ returned' = IF c.hit
                         THEN [returned EXCEPT ![t] =
                                  Some([res |-> c.res, cause |-> "negative_cache",
                                        read |-> FALSE])]
                         ELSE returned
          /\ last' = [op |-> IF c.hit THEN "verify" ELSE "verify_pending",
                      step |-> "check", who |-> t, thread |-> "w1"]
    /\ UNCHANGED <<expect, team_negative_cache, pgTeams, cached, fetchVars, poolVars,
                   merged, emitVars, retry, limiter, dispatch>>

\* the lookup of task t completes and the call runs to its return
ConcurrentLookup(t, r1, r2, fault, serOk) ==
    /\ pending[t] # None
    /\ TierCan(pending[t][1], r1) /\ TierCan(pending[t][1], r2)
    /\ OutcomesRead(r1, r2, fault, serOk)
    /\ \E token \in {pending[t][1]} :
       \E g \in {get_team_from_cache_or_pg(token, r1, r2, pgTeams, fault, serOk,
                    CANONICAL_LOG[t], RAYON_CANONICAL_LOG["w1"])} :
       \E victim \in NegativeCache_victims(team_negative_cache, token) :
       \E m \in {verify_token_and_get_team_match(team_negative_cache, token,
                         g.res, victim)} :
               /\ team_negative_cache' = m.cache
               /\ CANONICAL_LOG' = task_local_set(CANONICAL_LOG, t, g.stack)
               /\ RAYON_CANONICAL_LOG' = [RAYON_CANONICAL_LOG EXCEPT !["w1"] = g.slot]
               /\ returned' = [returned EXCEPT ![t] =
                                  Some([res |-> m.res,
                                        cause |-> IF g.res.ok THEN "none" ELSE g.res.err,
                                        read |-> TRUE])]
               /\ last' = [op |-> "verify", step |-> "lookup", who |-> t,
                           thread |-> "w1"]
    /\ pending' = [pending EXCEPT ![t] = None]
    /\ UNCHANGED <<expect, pgTeams, cached, fetchVars, poolVars, merged, emitVars,
                   retry, limiter, dispatch>>

ConcurrentNext ==
    \/ \E t \in Tasks : ConcurrentCheck(t)
    \/ \E t \in Tasks, r1 \in TierOutcomes, r2 \in TierOutcomes,
          fault \in PgFaults, serOk \in BOOLEAN :
           ConcurrentLookup(t, r1, r2, fault, serOk)

\* no backend knows the token and the negative cache is empty; each task
\* serves its request inside a run_with_canonical_log scope or calls outside
\* any scope
ConcurrentInit ==
    /\ guards = [th \in Threads |-> 0]
    /\ invocation = [th \in Threads |-> None]
    /\ merged = NothingMerged
    /\ line = None
    /\ emitted = <<>>
    /\ \E scoped \in SUBSET Tasks :
          CANONICAL_LOG = [t \in Tasks |->
              IF t \in scoped THEN << FlagsCanonicalLogLine_new(<<t, 1>>, "10.0.0.1") >>
              ELSE <<>>]
    /\ RAYON_CANONICAL_LOG = [th \in Threads |-> None]
    /\ expect = [t \in Tasks |-> <<>>]
    /\ team_negative_cache = {}
    /\ pgTeams = {}
    /\ cached = {}
    /\ pending = [t \in Tasks |-> None]
    /\ flagsPg = [id \in TeamIds |-> <<>>]
    /\ flagsCache = [id \in TeamIds |-> None]
    /\ retry = NoRetry
    /\ limiter = NoLimiter
    /\ dispatch = NoDispatch
    /\ returned = NoneReturned
    /\ last = [op |-> "init", who |-> NoTask, thread |-> "-"]

SpecConcurrent == ConcurrentInit /\ [][ConcurrentNext]_vars

(***************************************************************************)
(* get_flags_from_cache_or_pg                                              *)
(***************************************************************************)
\* the flag lists of a team, by the keys of the flags
FlagLists == {<<>>, <<"beta_feature">>}

\* serde_json::to_value(&HypercacheFlagsWrapper { flags })
flags_to_value(flags) == [json |-> "object", flags |-> flags]

\* FeatureFlagList::parse_hypercache_value(data, team_id)
parse_hypercache_value(data, team_id) ==
    IF data.json = "object" THEN Ok(data.flags)
    ELSE Err("DataParsingErrorWithContext")

\* what a tier of the flags reader answers to one read
FlagsTierOutcomes == TierOutcomes \cup {"timeout"}

\* a tier answers with a flag list only for a team whose list is cached
FlagsTierCan(cache, team_id, outcome) == outcome = "hit" => cache[team_id] # None

\* FeatureFlagList::from_pg(pg_client, team_id)
FeatureFlagList_from_pg(team_id, pg, fault) ==
    IF fault = "unavailable" THEN Err("DatabaseUnavailable")
    ELSE IF fault = "timeout" THEN Err("TimeoutError")
    ELSE Ok(pg[team_id])

\* the fallback closure: the flags are read from the primary store and
\* serialized to the cache's format
flags_fallback(team_id, pg, fault, serOk) ==
    LET r == FeatureFlagList_from_pg(team_id, pg, fault)
    IN IF ~r.ok THEN r
       ELSE IF serOk THEN Ok(Some(flags_to_value(r.val)))
       ELSE Err("Internal")

\* one read of a tier, as the tier's client records it
TierRead(tier) == <<tier, "get_raw_bytes">>

\* HyperCacheReader::get_with_source_or_fallback of the flags reader: the first
\* tier that holds a payload answers; a tier that misses, times out or is
\* unavailable passes to the next one and at last to the fallback. `calls`
\* are the operations issued to the cache tiers, `loads` the invocations of
\* the fallback.
flags_get_with_source_or_fallback(team_id, r1, r2, cache, pg, fault, serOk) ==
    IF Answers(r1)
    THEN [res |-> Ok(IF r1 = "hit" THEN flags_to_value(cache[team_id][1])
                     ELSE MalformedValue),
          source |-> "Redis", calls |-> << TierRead("Redis") >>, loads |-> 0]
    ELSE IF Answers(r2)
    THEN [res |-> Ok(IF r2 = "hit" THEN flags_to_value(cache[team_id][1])
                     ELSE MalformedValue),
          source |-> "S3", calls |-> << TierRead("Redis"), TierRead("S3") >>,
          loads |-> 0]
    ELSE LET f == flags_fallback(team_id, pg, fault, serOk)
         IN [res |-> IF f.ok THEN Ok(f.val[1]) ELSE f,
             source |-> "Fallback",
             calls |-> << TierRead("Redis"), TierRead("S3") >>, loads |-> 1]

get_flags_from_cache_or_pg_writes_back(team_id, r1, r2, cache, pg, fault, serOk) ==
    LET rd == flags_get_with_source_or_fallback(team_id, r1, r2, cache, pg, fault, serOk)
    IN IF ~rd.res.ok
       THEN [res |-> rd.res, calls |-> rd.calls, loads |-> rd.loads, cache |-> cache]
       ELSE LET flags == parse_hypercache_value(rd.res.val, team_id)
            IN IF ~flags.ok
               THEN [res |-> flags, calls |-> rd.calls, loads |-> rd.loads,
                     cache |-> cache]
               ELSE IF rd.source = "Fallback"
               THEN [res |-> Ok([flag_list |-> flags.val, cache_source |-> rd.source]),
                     calls |-> Append(rd.calls, <<"Redis", "set_bytes">>),
                     loads |-> rd.loads,
                     cache |-> [cache EXCEPT ![team_id] = Some(flags.val)]]
               ELSE [res |-> Ok([flag_list |-> flags.val, cache_source |-> rd.source]),
                     calls |-> rd.calls, loads |-> rd.loads, cache |-> cache]

get_flags_from_cache_or_pg_hides_source(team_id, r1, r2, cache, pg, fault, serOk) ==
    LET rd == flags_get_with_source_or_fallback(team_id, r1, r2, cache, pg, fault, serOk)
    IN IF ~rd.res.ok
       THEN [res |-> rd.res, calls |-> rd.calls, loads |-> rd.loads, cache |-> cache]
       ELSE LET flags == parse_hypercache_value(rd.res.val, team_id)
            IN IF ~flags.ok
               THEN [res |-> flags, calls |-> rd.calls, loads |-> rd.loads,
                     cache |-> cache]
               ELSE [res |-> Ok([flag_list |-> flags.val, cache_source |-> "Redis"]),
                     calls |-> rd.calls, loads |-> rd.loads, cache |-> cache]

get_flags_from_cache_or_pg_collapses_error(team_id, r1, r2, cache, pg, fault, serOk) ==
    LET rd == flags_get_with_source_or_fallback(team_id, r1, r2, cache, pg, fault, serOk)
    IN IF ~rd.res.ok
       THEN [res |-> Err("TokenValidationError"), calls |-> rd.calls,
             loads |-> rd.loads, cache |-> cache]
       ELSE LET flags == parse_hypercache_value(rd.res.val, team_id)
            IN IF ~flags.ok
               THEN [res |-> Err("TokenValidationError"), calls |-> rd.calls,
                     loads |-> rd.loads, cache |-> cache]
               ELSE [res |-> Ok([flag_list |-> flags.val, cache_source |-> rd.source]),
                     calls |-> rd.calls, loads |-> rd.loads, cache |-> cache]

\* FlagService::get_flags_from_cache_or_pg(team_id): the error of the reader
\* is returned as it is (`?`), then the error of the parser; otherwise the
\* FlagResult. `cache` is what the cache tiers hold after the call.
get_flags_from_cache_or_pg(team_id, r1, r2, cache, pg, fault, serOk) ==
    LET rd == flags_get_with_source_or_fallback(team_id, r1, r2, cache, pg, fault, serOk)
    IN IF ~rd.res.ok
       THEN [res |-> rd.res, calls |-> rd.calls, loads |-> rd.loads, cache |-> cache]
       ELSE LET flags == parse_hypercache_value(rd.res.val, team_id)
            IN IF ~flags.ok
               THEN [res |-> flags, calls |-> rd.calls, loads |-> rd.loads,
                     cache |-> cache]
               ELSE [res |-> Ok([flag_list |-> flags.val, cache_source |-> rd.source]),
                     calls |-> rd.calls, loads |-> rd.loads, cache |-> cache]

\* the metrics of the reader ("Emits appropriate metrics for all scenarios"):
\* a read that ends with a payload counts a hit when a tier has answered and
\* a miss when the fallback has
hypercache_metrics(rd) ==
    IF rd.res.ok
    THEN << <<"FLAG_CACHE_HIT_COUNTER",
              IF rd.source # "Fallback" THEN "true" ELSE "false">> >>
    ELSE <<>>

\* a handler calls get_flags_from_cache_or_pg(team_id): the tiers answer r1
\* and r2 and the primary store is in state `fault`
FetchFlags(team_id, r1, r2, fault, serOk) ==
    /\ FlagsTierCan(flagsCache, team_id, r1) /\ FlagsTierCan(flagsCache, team_id, r2)
    /\ OutcomesRead(r1, r2, fault, serOk)
    /\ \E g \in {get_flags_from_cache_or_pg(team_id, r1, r2, flagsCache, flagsPg,
                    fault, serOk)} :
          /\ flagsCache' = g.cache
          /\ last' = [op |-> "fetch_flags", who |-> NoTask, thread |-> "-",
                      team_id |-> team_id, r1 |-> r1, r2 |-> r2, fault |-> fault,
                      serOk |-> serOk, res |-> g.res, calls |-> g.calls,
                      loads |-> g.loads,
                      metrics |-> hypercache_metrics(
                          flags_get_with_source_or_fallback(team_id, r1, r2,
                              flagsCache, flagsPg, fault, serOk))]
    /\ UNCHANGED <<logVars, team_negative_cache, pgTeams, cached, pending, flagsPg>>
    /\ UNCHANGED restVars

\* the handler of task t, whose get_flags_from_cache_or_pg call has just
\* returned a FlagResult, logs the source of the flags
HandlerLogFlags(t) ==
    /\ last.op = "fetch_flags"
    /\ last.res.ok
    /\ \E g \in {with_canonical_log(CANONICAL_LOG[t], RAYON_CANONICAL_LOG["w1"],
                    [kind |-> "set_some", field |-> "flags_cache_source",
                     val |-> as_log_str(last.res.val.cache_source)])} :
          /\ CANONICAL_LOG' = task_local_set(CANONICAL_LOG, t, g.stack)
          /\ RAYON_CANONICAL_LOG' = [RAYON_CANONICAL_LOG EXCEPT !["w1"] = g.slot]
          /\ last' = [op |-> "handler_log_flags", who |-> t, thread |-> "w1",
                      r1 |-> last.r1, r2 |-> last.r2,
                      source |-> last.res.val.cache_source,
                      metrics |-> last.metrics]
    /\ UNCHANGED <<expect, flagVars>>
    /\ UNCHANGED restVars

\* the environment: the flags of a team change in the primary store; the
\* external writer caches the list the primary store holds, or a tier drops it
FlagsChanged(team_id, flags) ==
    /\ flagsPg[team_id] # flags
    /\ flagsPg' = [flagsPg EXCEPT ![team_id] = flags]
    /\ last' = [op |-> "flags_changed", who |-> NoTask, thread |-> "-"]
    /\ UNCHANGED <<logVars, team_negative_cache, pgTeams, cached, pending, flagsCache>>
    /\ UNCHANGED restVars

FlagsCacheWrite(team_id) ==
    /\ flagsCache[team_id] # Some(flagsPg[team_id])
    /\ flagsCache' = [flagsCache EXCEPT ![team_id] = Some(flagsPg[team_id])]
    /\ last' = [op |-> "flags_cache_write", who |-> NoTask, thread |-> "-"]
    /\ UNCHANGED <<logVars, team_negative_cache, pgTeams, cached, pending, flagsPg>>
    /\ UNCHANGED restVars

FlagsCacheRemove(team_id) ==
    /\ flagsCache[team_id] # None
    /\ flagsCache' = [flagsCache EXCEPT ![team_id] = None]
    /\ last' = [op |-> "flags_cache_remove", who |-> NoTask, thread |-> "-"]
    /\ UNCHANGED <<logVars, team_negative_cache, pgTeams, cached, pending, flagsPg>>
    /\ UNCHANGED restVars

FetchInit ==
    /\ guards = [th \in Threads |-> 0]
    /\ invocation = [th \in Threads |-> None]
    /\ merged = NothingMerged
    /\ line = None
    /\ emitted = <<>>
    /\ CANONICAL_LOG = [t \in Tasks |-> <<>>]
    /\ RAYON_CANONICAL_LOG = [th \in Threads |-> None]
    /\ expect = [t \in Tasks |-> <<>>]
    /\ team_negative_cache \in {{}, {"phc_a"}}
    /\ pgTeams = {}
    /\ cached = {}
    /\ pending = [t \in Tasks |-> None]
    /\ flagsPg = [id \in TeamIds |-> <<>>]
    /\ flagsCache = [id \in TeamIds |-> None]
    /\ retry = NoRetry
    /\ limiter = NoLimiter
    /\ dispatch = NoDispatch
    /\ returned = NoneReturned
    /\ last = [op |-> "init", who |-> NoTask, thread |-> "-"]

FetchNext ==
    \/ \E team_id \in TeamIds, r1 \in FlagsTierOutcomes,
          r2 \in FlagsTierOutcomes, fault \in PgFaults, serOk \in BOOLEAN :
           FetchFlags(team_id, r1, r2, fault, serOk)
    \/ \E team_id \in TeamIds, flags \in FlagLists : FlagsChanged(team_id, flags)
    \/ \E team_id \in TeamIds : FlagsCacheWrite(team_id)
    \/ \E team_id \in TeamIds : FlagsCacheRemove(team_id)

SpecFetch == FetchInit /\ [][FetchNext]_vars

\* a request of team 1 is served by task t1 inside a run_with_canonical_log
\* scope; task t2 runs outside any scope
FlagsLogInit ==
    /\ guards = [th \in Threads |-> 0]
    /\ invocation = [th \in Threads |-> None]
    /\ merged = NothingMerged
    /\ line = None
    /\ emitted = <<>>
    /\ CANONICAL_LOG = [t \in Tasks |->
           IF t = "t1" THEN << FlagsCanonicalLogLine_new(<<t, 1>>, "10.0.0.1") >>
           ELSE <<>>]
    /\ RAYON_CANONICAL_LOG = [th \in Threads |-> None]
    /\ expect = [t \in Tasks |-> <<>>]
    /\ team_negative_cache = {}
    /\ pgTeams = {}
    /\ cached = {}
    /\ pending = [t \in Tasks |-> None]
    /\ flagsPg = [id \in TeamIds |-> <<>>]
    /\ flagsCache = [id \in TeamIds |-> None]
    /\ retry = NoRetry
    /\ limiter = NoLimiter
    /\ dispatch = NoDispatch
    /\ returned = NoneReturned
    /\ last = [op |-> "init", who |-> NoTask, thread |-> "-"]

FlagsLogNext ==
    \/ \E r1 \in FlagsTierOutcomes, r2 \in FlagsTierOutcomes,
          fault \in PgFaults, serOk \in BOOLEAN :
           FetchFlags(1, r1, r2, fault, serOk)
    \/ \E t \in Tasks : HandlerLogFlags(t)
    \/ \E flags \in FlagLists : FlagsChanged(1, flags)
    \/ FlagsCacheWrite(1)
    \/ FlagsCacheRemove(1)

SpecFlagsLog == FlagsLogInit /\ [][FlagsLogNext]_vars

(***************************************************************************)
(* The pool's worker threads: install, with_canonical_log, take, the drop  *)
(* of the guard and the unwinding of a panic.                              *)
(***************************************************************************)
PoolThreads == {"w1", "w2"}

\* the mutators that code on a pool thread applies
PoolMutators ==
    { [kind |-> "add", field |-> "property_cache_hits", val |-> 1],
      [kind |-> "set_some", field |-> "team_id", val |-> 1] }

thread_local_shared(store, th, slot) ==
    [u \in DOMAIN store |-> slot]

\* std::thread_local!: each thread has a cell of its own
thread_local_set(store, th, slot) ==
    [store EXCEPT ![th] = slot]

\* history: what the slot of a thread is expected to hold. `log` is the
\* default fragment with the mutations made on the thread since the install,
\* `after` tells what the install found.
NoInvocation ==
    [phase |-> "empty", after |-> "-", log |-> FlagsCanonicalLogLine_default]
Aborted(inv) ==
    [phase |-> IF (inv.phase = "open" /\ inv.log # FlagsCanonicalLogLine_default)
                  \/ inv.phase = "aborted_counted"
               THEN "aborted_counted" ELSE "aborted",
     after |-> "-", log |-> FlagsCanonicalLogLine_default]
Installed(inv) ==
    [phase |-> "open",
     after |-> IF inv.phase # "open" THEN inv.phase
               ELSE IF inv.log # FlagsCanonicalLogLine_default THEN "counted"
               ELSE "zero",
     log |-> FlagsCanonicalLogLine_default]
Emptied(inv) ==
    IF inv.phase = "open" THEN NoInvocation ELSE inv
ExpectedSlot(inv) ==
    IF inv.phase = "open" THEN Some(inv.log) ELSE None

\* a pool invocation on thread th begins: the fragment is installed and the
\* guard is returned
PoolInstall(th) ==
    /\ guards[th] < MaxGuards
    /\ RAYON_CANONICAL_LOG' = thread_local_set(RAYON_CANONICAL_LOG, th,
           install_rayon_canonical_log(RAYON_CANONICAL_LOG[th]))
    /\ guards' = [guards EXCEPT ![th] = @ + 1]
    /\ invocation' = [invocation EXCEPT ![th] = Installed(@)]
    /\ last' = [op |-> "install", who |-> NoTask, thread |-> th,
                over |-> Installed(invocation[th]).after]
    /\ UNCHANGED <<CANONICAL_LOG, expect, flagVars, otherVars, merged, emitVars>>

\* code on pool thread th, inside no task scope, calls with_canonical_log(m)
PoolWithLog(th, m) ==
    /\ (m.kind = "add" /\ RAYON_CANONICAL_LOG[th] # None)
           => RAYON_CANONICAL_LOG[th][1][m.field] + m.val <= MaxHits
    /\ \E r \in {with_canonical_log(<<>>, RAYON_CANONICAL_LOG[th], m)} :
           RAYON_CANONICAL_LOG' = thread_local_set(RAYON_CANONICAL_LOG, th, r.slot)
    /\ invocation' = IF invocation[th].phase = "open"
                     THEN [invocation EXCEPT ![th].log = ApplyMut(m, @)]
                     ELSE invocation
    /\ last' = [op |-> "with_log", who |-> NoTask, thread |-> th, mut |-> m,
                scoped |-> FALSE, frag |-> (invocation[th].phase = "open")]
    /\ UNCHANGED <<CANONICAL_LOG, expect, flagVars, otherVars, guards, merged, emitVars>>

\* the dispatcher takes the fragment of thread th
PoolTake(th) ==
    /\ \E r \in {take_rayon_canonical_log(RAYON_CANONICAL_LOG[th])} :
          /\ RAYON_CANONICAL_LOG' = thread_local_set(RAYON_CANONICAL_LOG, th, r.slot)
          /\ last' = [op |-> "take", who |-> NoTask, thread |-> th,
                      taken |-> r.taken, phase |-> invocation[th].phase,
                      after |-> invocation[th].after,
                      expected |-> ExpectedSlot(invocation[th])]
    /\ invocation' = [invocation EXCEPT ![th] = Emptied(@)]
    /\ UNCHANGED <<CANONICAL_LOG, expect, flagVars, otherVars, guards, merged, emitVars>>

\* a pool invocation on thread th ends: its guard goes out of scope
PoolGuardDrop(th) ==
    /\ guards[th] > 0
    /\ RAYON_CANONICAL_LOG' = thread_local_set(RAYON_CANONICAL_LOG, th,
           RayonCanonicalLogGuard_drop(RAYON_CANONICAL_LOG[th]))
    /\ guards' = [guards EXCEPT ![th] = @ - 1]
    /\ invocation' = [invocation EXCEPT ![th] = Emptied(@)]
    /\ last' = [op |-> "guard_drop", who |-> NoTask, thread |-> th,
                phase |-> invocation[th].phase, after |-> invocation[th].after]
    /\ UNCHANGED <<CANONICAL_LOG, expect, flagVars, otherVars, merged, emitVars>>

\* code inside a guarded scope of thread th panics: the stack unwinds up to
\* the frame that catches the panic and drops the k guards on the way
PoolPanic(th, k) ==
    /\ k \in 1..guards[th]
    /\ RAYON_CANONICAL_LOG' = thread_local_set(RAYON_CANONICAL_LOG, th,
           RayonCanonicalLogGuard_drop(RAYON_CANONICAL_LOG[th]))
    /\ guards' = [guards EXCEPT ![th] = @ - k]
    /\ invocation' = [invocation EXCEPT ![th] = Aborted(@)]
    /\ last' = [op |-> "panic", who |-> NoTask, thread |-> th, dropped |-> k]
    /\ UNCHANGED <<CANONICAL_LOG, expect, flagVars, otherVars, merged, emitVars>>

RayonInit ==
    /\ CANONICAL_LOG = [t \in Tasks |-> <<>>]
    /\ RAYON_CANONICAL_LOG = [th \in PoolThreads |-> None]
    /\ expect = [t \in Tasks |-> <<>>]
    /\ team_negative_cache = {}
    /\ pgTeams = {}
    /\ cached = {}
    /\ pending = [t \in Tasks |-> None]
    /\ flagsPg = [id \in TeamIds |-> <<>>]
    /\ flagsCache = [id \in TeamIds |-> None]
    /\ retry = NoRetry
    /\ limiter = NoLimiter
    /\ dispatch = NoDispatch
    /\ returned = NoneReturned
    /\ guards = [th \in PoolThreads |-> 0]
    /\ invocation = [th \in PoolThreads |-> NoInvocation]
    /\ merged = NothingMerged
    /\ line = None
    /\ emitted = <<>>
    /\ last = [op |-> "init", who |-> NoTask, thread |-> "-"]

RayonNext ==
    \/ \E th \in PoolThreads : PoolInstall(th)
    \/ \E th \in PoolThreads, m \in PoolMutators : PoolWithLog(th, m)
    \/ \E th \in PoolThreads : PoolTake(th)
    \/ \E th \in PoolThreads : PoolGuardDrop(th)
    \/ \E th \in PoolThreads, k \in 1..MaxGuards : PoolPanic(th, k)

SpecRayon == RayonInit /\ [][RayonNext]_vars

(***************************************************************************)
(* merge_rayon_delta                                                       *)
(***************************************************************************)
merge_rayon_delta_assigns_bools(log, delta) ==
    [log EXCEPT
        !.flags_device_id_bucketing = @ + delta.flags_device_id_bucketing,
        !.cohorts_evaluated = @ + delta.cohorts_evaluated,
        !.property_cache_hits = @ + delta.property_cache_hits,
        !.property_cache_misses = @ + delta.property_cache_misses,
        !.person_properties_not_cached = delta.person_properties_not_cached,
        !.group_properties_not_cached = delta.group_properties_not_cached]

merge_rayon_delta_assigns_counters(log, delta) ==
    [log EXCEPT
        !.flags_device_id_bucketing = delta.flags_device_id_bucketing,
        !.cohorts_evaluated = delta.cohorts_evaluated,
        !.property_cache_hits = delta.property_cache_hits,
        !.property_cache_misses = delta.property_cache_misses,
        !.person_properties_not_cached = @ \/ delta.person_properties_not_cached,
        !.group_properties_not_cached = @ \/ delta.group_properties_not_cached]

merge_rayon_delta_sums_queries(log, delta) ==
    [log EXCEPT
        !.flags_device_id_bucketing = @ + delta.flags_device_id_bucketing,
        !.cohorts_evaluated = @ + delta.cohorts_evaluated,
        !.property_cache_hits = @ + delta.property_cache_hits,
        !.property_cache_misses = @ + delta.property_cache_misses,
        !.person_queries = @ + delta.person_queries,
        !.person_query_time_ms = @ + delta.person_query_time_ms,
        !.person_properties_not_cached = @ \/ delta.person_properties_not_cached,
        !.group_properties_not_cached = @ \/ delta.group_properties_not_cached]

merge_rayon_delta_copies_team(log, delta) ==
    [log EXCEPT
        !.team_id = IF delta.team_id # None THEN delta.team_id ELSE @,
        !.flags_device_id_bucketing = @ + delta.flags_device_id_bucketing,
        !.cohorts_evaluated = @ + delta.cohorts_evaluated,
        !.property_cache_hits = @ + delta.property_cache_hits,
        !.property_cache_misses = @ + delta.property_cache_misses,
        !.person_properties_not_cached = @ \/ delta.person_properties_not_cached,
        !.group_properties_not_cached = @ \/ delta.group_properties_not_cached]

\* self.merge_rayon_delta(&delta): four counters are summed, two booleans
\* are OR'd, every other field of self is left as it is
merge_rayon_delta(log, delta) ==
    [log EXCEPT
        !.flags_device_id_bucketing = @ + delta.flags_device_id_bucketing,
        !.cohorts_evaluated = @ + delta.cohorts_evaluated,
        !.property_cache_hits = @ + delta.property_cache_hits,
        !.property_cache_misses = @ + delta.property_cache_misses,
        !.person_properties_not_cached = @ \/ delta.person_properties_not_cached,
        !.group_properties_not_cached = @ \/ delta.group_properties_not_cached]

\* the fragments a pool invocation may hand back: c scales the four
\* evaluation counters, b names the boolean that is set, q tells whether the
\* query counters and timings were written, id whether request-level fields
\* were written by mistake
Delta(c, b, q, id) ==
    [FlagsCanonicalLogLine_default EXCEPT
        !.property_cache_hits = c,
        !.property_cache_misses = 2 * c,
        !.cohorts_evaluated = 3 * c,
        !.flags_device_id_bucketing = 4 * c,
        !.person_properties_not_cached = (b = "person"),
        !.group_properties_not_cached = (b = "group"),
        !.db_property_fetches = IF q THEN 3 ELSE 0,
        !.person_queries = IF q THEN 1 ELSE 0,
        !.group_queries = IF q THEN 1 ELSE 0,
        !.static_cohort_queries = IF q THEN 1 ELSE 0,
        !.person_query_time_ms = IF q THEN 5 ELSE 0,
        !.group_query_time_ms = IF q THEN 6 ELSE 0,
        !.cohort_query_time_ms = IF q THEN 7 ELSE 0,
        !.request_id = IF id THEN <<"other", 9>> ELSE @,
        !.ip = IF id THEN "10.9.9.9" ELSE @,
        !.start_time = IF id THEN "later" ELSE @,
        !.team_id = IF id THEN Some(2) ELSE @,
        !.distinct_id = IF id THEN Some("someone") ELSE @,
        !.http_status = IF id THEN 500 ELSE @,
        !.error_code = IF id THEN Some("internal_error") ELSE @,
        !.team_cache_source = IF id THEN Some("s3") ELSE @,
        !.flags_evaluated = IF id THEN 7 ELSE @,
        !.flags_errored = IF id THEN 1 ELSE @]

Deltas ==
    { Delta(c, b, q, id) : c \in {0, 1}, b \in {"none", "person", "group"},
                           q \in BOOLEAN, id \in BOOLEAN }

\* the logs of a request at the time the pool hands back its first fragment
MergeTargets ==
    { [FlagsCanonicalLogLine_new(<<"t1", 1>>, "10.0.0.1") EXCEPT
          !.team_id = Some(1),
          !.flags_evaluated = 2,
          !.person_queries = 1,
          !.person_query_time_ms = 4,
          !.property_cache_hits = h,
          !.person_properties_not_cached = p] : h \in {0, 1}, p \in BOOLEAN }

\* task t, inside its scope, merges the fragment of a pool invocation
Merge(t, delta) ==
    /\ Len(CANONICAL_LOG[t]) > 0
    /\ Len(merged.deltas) < MaxMerges
    /\ CANONICAL_LOG' = task_local_set(CANONICAL_LOG, t,
           [CANONICAL_LOG[t] EXCEPT ![Len(CANONICAL_LOG[t])] =
                merge_rayon_delta(@, delta)])
    /\ merged' = [merged EXCEPT !.deltas = Append(@, delta)]
    /\ last' = [op |-> "merge", who |-> t, thread |-> "-",
                before |-> Top(CANONICAL_LOG[t]), delta |-> delta]
    /\ UNCHANGED <<RAYON_CANONICAL_LOG, expect, flagVars, otherVars, poolVars, emitVars>>

MergeInit ==
    /\ \E log \in MergeTargets :
          /\ CANONICAL_LOG = [t \in Tasks |-> IF t = "t1" THEN <<log>> ELSE <<>>]
          /\ merged = [into |-> Some(log), deltas |-> <<>>]
    /\ RAYON_CANONICAL_LOG = [th \in Threads |-> None]
    /\ expect = [t \in Tasks |-> <<>>]
    /\ team_negative_cache = {}
    /\ pgTeams = {}
    /\ cached = {}
    /\ pending = [t \in Tasks |-> None]
    /\ flagsPg = [id \in TeamIds |-> <<>>]
    /\ flagsCache = [id \in TeamIds |-> None]
    /\ retry = NoRetry
    /\ limiter = NoLimiter
    /\ dispatch = NoDispatch
    /\ returned = NoneReturned
    /\ guards = [th \in Threads |-> 0]
    /\ invocation = [th \in Threads |-> None]
    /\ line = None
    /\ emitted = <<>>
    /\ last = [op |-> "init", who |-> NoTask, thread |-> "-"]

MergeNext ==
    \E delta \in Deltas : Merge("t1", delta)

SpecMerge == MergeInit /\ [][MergeNext]_vars

(***************************************************************************)
(* A request, the pool invocation it dispatches, and its cancellation.     *)
(* The closure of an invocation installs the fragment, evaluates, takes    *)
(* the fragment and returns it; its guard drops when the closure ends or   *)
(* unwinds. The request merges the fragment it receives; a request that is *)
(* cancelled drops its scope, and the closure runs on without it.          *)
(***************************************************************************)
\* no closure is queued for thread th or runs on it
ThreadFree(th) ==
    \A u \in Tasks : dispatch[u].thread = th => dispatch[u].phase \in {"idle", "ended"}

\* a request begins on task t: the handler opens the scope of its log
RequestStart(t) ==
    /\ CANONICAL_LOG[t] = <<>>
    /\ dispatch[t].phase = "idle"
    /\ CANONICAL_LOG' = task_local_set(CANONICAL_LOG, t,
           scope(CANONICAL_LOG[t], FlagsCanonicalLogLine_new(<<t, 1>>, "10.0.0.1")))
    /\ last' = [op |-> "request_start", who |-> t, thread |-> "-"]
    /\ UNCHANGED <<RAYON_CANONICAL_LOG, expect, flagVars, poolVars, merged, emitVars,
                   retry, limiter, dispatch, returned>>

\* the request of task t hands its evaluation to the pool, on thread th
Dispatch(t, th) ==
    /\ Len(CANONICAL_LOG[t]) > 0
    /\ dispatch[t].phase = "idle"
    /\ Top(CANONICAL_LOG[t]).property_cache_hits = 0
    /\ ThreadFree(th)
    /\ dispatch' = [dispatch EXCEPT ![t] = [Idle EXCEPT !.phase = "queued", !.thread = th]]
    /\ last' = [op |-> "dispatch", who |-> t, thread |-> th]
    /\ UNCHANGED <<logVars, flagVars, poolVars, merged, emitVars, retry, limiter, returned>>

\* the closure of t's invocation begins on its thread
InvocationInstall(t) ==
    /\ dispatch[t].phase = "queued"
    /\ \E th \in {dispatch[t].thread} :
          /\ RAYON_CANONICAL_LOG' = thread_local_set(RAYON_CANONICAL_LOG, th,
                 install_rayon_canonical_log(RAYON_CANONICAL_LOG[th]))
          /\ guards' = [guards EXCEPT ![th] = @ + 1]
          /\ last' = [op |-> "invocation_install", who |-> t, thread |-> th]
    /\ dispatch' = [dispatch EXCEPT ![t].phase = "running",
                                    ![t].applied = FlagsCanonicalLogLine_default]
    /\ UNCHANGED <<CANONICAL_LOG, expect, flagVars, invocation, merged, emitVars,
                   retry, limiter, returned>>

\* the evaluation of t's invocation calls with_canonical_log(m): it runs on
\* a pool thread, inside no task
InvocationWithLog(t, m) ==
    /\ dispatch[t].phase = "running"
    /\ m.kind = "add" => dispatch[t].applied[m.field] + m.val <= MaxHits
    /\ \E th \in {dispatch[t].thread} :
       \E r \in {with_canonical_log(ScopeOf(CANONICAL_LOG, NoTask),
                                    RAYON_CANONICAL_LOG[th], m)} :
          /\ RAYON_CANONICAL_LOG' = thread_local_set(RAYON_CANONICAL_LOG, th, r.slot)
          /\ last' = [op |-> "invocation_with_log", who |-> t, thread |-> th]
    /\ dispatch' = [dispatch EXCEPT ![t].applied = ApplyMut(m, @)]
    /\ UNCHANGED <<CANONICAL_LOG, expect, flagVars, poolVars, merged, emitVars,
                   retry, limiter, returned>>

\* the closure takes the fragment, to return it
InvocationTake(t) ==
    /\ dispatch[t].phase = "running"
    /\ \E th \in {dispatch[t].thread} :
       \E r \in {take_rayon_canonical_log(RAYON_CANONICAL_LOG[th])} :
          /\ RAYON_CANONICAL_LOG' = thread_local_set(RAYON_CANONICAL_LOG, th, r.slot)
          /\ dispatch' = [dispatch EXCEPT ![t].phase = "taken", ![t].fragment = r.taken]
          /\ last' = [op |-> "invocation_take", who |-> t, thread |-> th]
    /\ UNCHANGED <<CANONICAL_LOG, expect, flagVars, poolVars, merged, emitVars,
                   retry, limiter, returned>>

\* the closure ends and its guard drops
InvocationEnd(t) ==
    /\ dispatch[t].phase = "taken"
    /\ \E th \in {dispatch[t].thread} :
          /\ RAYON_CANONICAL_LOG' = thread_local_set(RAYON_CANONICAL_LOG, th,
                 RayonCanonicalLogGuard_drop(RAYON_CANONICAL_LOG[th]))
          /\ guards' = [guards EXCEPT ![th] = @ - 1]
          /\ last' = [op |-> "invocation_end", who |-> t, thread |-> th]
    /\ dispatch' = [dispatch EXCEPT ![t].phase = "ended"]
    /\ UNCHANGED <<CANONICAL_LOG, expect, flagVars, invocation, merged, emitVars,
                   retry, limiter, returned>>

\* the evaluation panics: the closure unwinds, its guard drops and no
\* fragment is returned
InvocationPanic(t) ==
    /\ dispatch[t].phase = "running"
    /\ \E th \in {dispatch[t].thread} :
          /\ RAYON_CANONICAL_LOG' = thread_local_set(RAYON_CANONICAL_LOG, th,
                 RayonCanonicalLogGuard_drop(RAYON_CANONICAL_LOG[th]))
          /\ guards' = [guards EXCEPT ![th] = @ - 1]
          /\ last' = [op |-> "invocation_panic", who |-> t, thread |-> th]
    /\ dispatch' = [dispatch EXCEPT ![t].phase = "ended"]
    /\ UNCHANGED <<CANONICAL_LOG, expect, flagVars, invocation, merged, emitVars,
                   retry, limiter, returned>>

\* the request of task t, inside its scope, receives what its invocation has
\* returned and merges the fragment
Join(t) ==
    /\ dispatch[t].phase = "ended"
    /\ ~dispatch[t].cancelled
    /\ Len(CANONICAL_LOG[t]) > 0
    /\ CANONICAL_LOG' = task_local_set(CANONICAL_LOG, t,
           [CANONICAL_LOG[t] EXCEPT ![Len(CANONICAL_LOG[t])] =
                IF dispatch[t].fragment # None
                THEN merge_rayon_delta(@, dispatch[t].fragment[1]) ELSE @])
    /\ dispatch' = [dispatch EXCEPT ![t] = Idle]
    /\ last' = [op |-> "join", who |-> t, thread |-> dispatch[t].thread]
    /\ UNCHANGED <<RAYON_CANONICAL_LOG, expect, flagVars, poolVars, merged, emitVars,
                   retry, limiter, returned>>

\* the request of task t is cancelled while its invocation is outstanding:
\* its future is dropped, and with it the scope and the log
Cancel(t) ==
    /\ Len(CANONICAL_LOG[t]) > 0
    /\ dispatch[t].phase # "idle"
    /\ ~dispatch[t].cancelled
    /\ CANONICAL_LOG' = task_local_set(CANONICAL_LOG, t, <<>>)
    /\ dispatch' = [dispatch EXCEPT ![t].cancelled = TRUE]
    /\ last' = [op |-> "cancel", who |-> t, thread |-> dispatch[t].thread]
    /\ UNCHANGED <<RAYON_CANONICAL_LOG, expect, flagVars, poolVars, merged, emitVars,
                   retry, limiter, returned>>

\* what the invocation of a cancelled request has returned finds no receiver
Discard(t) ==
    /\ dispatch[t].phase = "ended"
    /\ dispatch[t].cancelled
    /\ dispatch' = [dispatch EXCEPT ![t] = Idle]
    /\ last' = [op |-> "discard", who |-> t, thread |-> dispatch[t].thread]
    /\ UNCHANGED <<logVars, flagVars, poolVars, merged, emitVars, retry, limiter, returned>>

\* the request of task t completes: its scope returns the log
RequestEnd(t) ==
    /\ Len(CANONICAL_LOG[t]) > 0
    /\ dispatch[t].phase = "idle"
    /\ \E r \in {run_with_canonical_log(CANONICAL_LOG[t], "done")} :
          /\ CANONICAL_LOG' = task_local_set(CANONICAL_LOG, t, r.stack)
          /\ last' = [op |-> "request_end", who |-> t, thread |-> "-",
                      hits |-> r.ret.log.property_cache_hits]
    /\ UNCHANGED <<RAYON_CANONICAL_LOG, expect, flagVars, poolVars, merged, emitVars,
                   retry, limiter, dispatch, returned>>

CancelInit ==
    /\ CANONICAL_LOG = [t \in Tasks |-> <<>>]
    /\ RAYON_CANONICAL_LOG = [th \in PoolThreads |-> None]
    /\ expect = [t \in Tasks |-> <<>>]
    /\ team_negative_cache = {}
    /\ pgTeams = {}
    /\ cached = {}
    /\ pending = [t \in Tasks |-> None]
    /\ flagsPg = [id \in TeamIds |-> <<>>]
    /\ flagsCache = [id \in TeamIds |-> None]
    /\ retry = NoRetry
    /\ limiter = NoLimiter
    /\ dispatch = NoDispatch
    /\ returned = NoneReturned
    /\ guards = [th \in PoolThreads |-> 0]
    /\ invocation = [th \in PoolThreads |-> NoInvocation]
    /\ merged = NothingMerged
    /\ line = None
    /\ emitted = <<>>
    /\ last = [op |-> "init", who |-> NoTask, thread |-> "-"]

CancelNext ==
    \/ \E t \in Tasks : RequestStart(t)
    \/ \E t \in Tasks, th \in PoolThreads : Dispatch(t, th)
    \/ \E t \in Tasks : InvocationInstall(t)
    \/ \E t \in Tasks, m \in PoolMutators : InvocationWithLog(t, m)
    \/ \E t \in Tasks : InvocationTake(t)
    \/ \E t \in Tasks : InvocationEnd(t)
    \/ \E t \in Tasks : InvocationPanic(t)
    \/ \E t \in Tasks : Join(t)
    \/ \E t \in Tasks : Cancel(t)
    \/ \E t \in Tasks : Discard(t)
    \/ \E t \in Tasks : RequestEnd(t)

\* the pool runs every closure it has been given: one that can begin begins,
\* and one that has begun takes its fragment and ends, unless it panics
SpecCancel ==
    /\ CancelInit
    /\ [][CancelNext]_vars
    /\ \A t \in Tasks : /\ WF_vars(InvocationInstall(t))
                        /\ WF_vars(InvocationTake(t))
                        /\ WF_vars(InvocationEnd(t))

(***************************************************************************)
(* truncate_chars and emit. A string is the sequence of its UTF-8 bytes; a *)
(* byte is <<c, k>>, the k-th byte of the encoding of character c, and the *)
(* first byte of a character tells how many bytes the character has.       *)
(***************************************************************************)
Chars == {"a", "e_acute", "party"}

\* bytes of the UTF-8 encoding of a character: 'a', U+00E9, U+1F389
Width(c) == CASE c = "a" -> 1 [] c = "e_acute" -> 2 [] c = "party" -> 4

\* the string that repeats character c n times
Repeat(c, n) ==
    [i \in 1..(n * Width(c)) |-> <<c, ((i - 1) % Width(c)) + 1>>]

\* the strings of up to n characters
RECURSIVE Strings(_)
Strings(n) ==
    IF n = 0 THEN {<<>>}
    ELSE LET shorter == Strings(n - 1)
         IN shorter \cup {s \o Repeat(c, 1) : s \in shorter, c \in Chars}

\* the limit that emit gives to truncate_chars for user_agent
UserAgentMaxChars == 512

\* user agents around the limit
LongUserAgents ==
    {Repeat(c, n) : c \in Chars,
                    n \in {UserAgentMaxChars - 1, UserAgentMaxChars, UserAgentMaxChars + 1}}
    \cup {Repeat("a", UserAgentMaxChars - 1) \o Repeat("party", 1) \o Repeat("e_acute", 1),
          Repeat("party", UserAgentMaxChars - 1) \o Repeat("e_acute", 1) \o Repeat("a", 2)}

\* the iterator s.char_indices(): the byte position (counted from 1) that
\* follows n characters read from position pos, or None when the string ends
\* before n characters are read. A character is read by its first byte, which
\* tells its width; a long run is read as two shorter runs.
RECURSIVE char_indices_skip(_, _, _)
char_indices_skip(s, pos, n) ==
    IF n = 0 THEN Some(pos)
    ELSE IF n = 1
    THEN IF pos > Len(s) THEN None ELSE Some(pos + Width(s[pos][1]))
    ELSE LET mid == char_indices_skip(s, pos, n \div 2)
         IN IF mid = None THEN None
            ELSE char_indices_skip(s, mid[1], n - (n \div 2))

\* s.char_indices().nth(n): the byte index (counted from 0) of the character
\* that follows the first n, if there is one
char_indices_nth(s, n) ==
    LET at == char_indices_skip(s, 1, n)
    IN IF at = None \/ at[1] > Len(s) THEN None ELSE Some(at[1] - 1)

truncate_chars_counts_bytes(s, max_chars) ==
    IF max_chars < Len(s) THEN SubSeq(s, 1, max_chars) ELSE s

truncate_chars(s, max_chars) ==
    LET nth == char_indices_nth(s, max_chars)
    IN IF nth # None THEN SubSeq(s, 1, nth[1]) ELSE s

\* the fields of the canonical_log_line record that emit writes
emit(log, elapsed) ==
    [f \in (DOMAIN log \ {"start_time"}) \cup {"duration_ms"} |->
        IF f = "duration_ms" THEN elapsed
        ELSE IF f = "user_agent"
        THEN IF log.user_agent = None THEN None
             ELSE Some(truncate_chars(log.user_agent[1], UserAgentMaxChars))
        ELSE log[f]]

\* truncate_chars(s, n) is called on the user agent of the log line
TruncateChars(n) ==
    /\ line # None /\ line[1].user_agent # None
    /\ last' = [op |-> "truncate_chars", who |-> NoTask, thread |-> "-",
                s |-> line[1].user_agent[1], max_chars |-> n,
                out |-> truncate_chars(line[1].user_agent[1], n)]
    /\ UNCHANGED <<logVars, flagVars, otherVars, poolVars, merged, emitVars>>

\* the handler emits its log line, `elapsed` ms after the line was created
Emit(elapsed) ==
    /\ line # None
    /\ Len(emitted) < MaxEmits
    /\ emitted' = Append(emitted, emit(line[1], elapsed))
    /\ last' = [op |-> "emit", who |-> NoTask, thread |-> "-"]
    /\ UNCHANGED <<logVars, flagVars, otherVars, poolVars, merged, line>>

EmitInit ==
    /\ \E ua \in {None} \cup {Some(s) : s \in Strings(MaxChars) \cup LongUserAgents} :
          line = Some([FlagsCanonicalLogLine_new(<<"t1", 1>>, "10.0.0.1")
                          EXCEPT !.user_agent = ua])
    /\ CANONICAL_LOG = [t \in Tasks |-> <<>>]
    /\ RAYON_CANONICAL_LOG = [th \in Threads |-> None]
    /\ expect = [t \in Tasks |-> <<>>]
    /\ team_negative_cache = {}
    /\ pgTeams = {}
    /\ cached = {}
    /\ pending = [t \in Tasks |-> None]
    /\ flagsPg = [id \in TeamIds |-> <<>>]
    /\ flagsCache = [id \in TeamIds |-> None]
    /\ retry = NoRetry
    /\ limiter = NoLimiter
    /\ dispatch = NoDispatch
    /\ returned = NoneReturned
    /\ guards = [th \in Threads |-> 0]
    /\ invocation = [th \in Threads |-> None]
    /\ merged = NothingMerged
    /\ emitted = <<>>
    /\ last = [op |-> "init", who |-> NoTask, thread |-> "-"]

EmitNext ==
    \/ \E n \in 0..(MaxChars + 1) : TruncateChars(n)
    \/ \E elapsed \in {0, 7} : Emit(elapsed)

SpecEmit == EmitInit /\ [][EmitNext]_vars

(***************************************************************************)
(* emit_for_error, and the recording of errors as steps of the handler.    *)
(***************************************************************************)
\* FlagsCanonicalLogLine::emit_for_error(&mut self, error): the log after the
\* call and the record it has written
emit_for_error(log, error, elapsed) ==
    LET set == set_error(log, error)
    IN [log |-> set, record |-> emit(set, elapsed)]

\* the handler records an error on its log line without emitting
SetError(error) ==
    /\ line # None
    /\ line' = Some(set_error(line[1], error))
    /\ last' = [op |-> "set_error", who |-> NoTask, thread |-> "-",
                error |-> error, overwrote |-> line[1].error_code # None]
    /\ UNCHANGED <<logVars, flagVars, otherVars, poolVars, merged, emitted>>

\* the handler ends a failed request with emit_for_error
EmitForError(error, elapsed) ==
    /\ line # None
    /\ Len(emitted) < MaxEmits
    /\ \E r \in {emit_for_error(line[1], error, elapsed)} :
          /\ line' = Some(r.log)
          /\ emitted' = Append(emitted, r.record)
    /\ last' = [op |-> "emit_for_error", who |-> NoTask, thread |-> "-",
                error |-> error, overwrote |-> line[1].error_code # None]
    /\ UNCHANGED <<logVars, flagVars, otherVars, poolVars, merged>>

\* the line of a request that has been served so far: its team is known or
\* not, and a rate limiter has marked it or not
ErrorInit ==
    /\ \E limited \in BOOLEAN :
          line = Some([FlagsCanonicalLogLine_new(<<"t1", 1>>, "10.0.0.1")
                          EXCEPT !.team_id = IF limited THEN None ELSE Some(1),
                                 !.rate_limited = limited])
    /\ CANONICAL_LOG = [t \in Tasks |-> <<>>]
    /\ RAYON_CANONICAL_LOG = [th \in Threads |-> None]
    /\ expect = [t \in Tasks |-> <<>>]
    /\ team_negative_cache = {}
    /\ pgTeams = {}
    /\ cached = {}
    /\ pending = [t \in Tasks |-> None]
    /\ flagsPg = [id \in TeamIds |-> <<>>]
    /\ flagsCache = [id \in TeamIds |-> None]
    /\ retry = NoRetry
    /\ limiter = NoLimiter
    /\ dispatch = NoDispatch
    /\ returned = NoneReturned
    /\ guards = [th \in Threads |-> 0]
    /\ invocation = [th \in Threads |-> None]
    /\ merged = NothingMerged
    /\ emitted = <<>>
    /\ last = [op |-> "init", who |-> NoTask, thread |-> "-"]

ErrorNext ==
    \/ \E error \in FlagErrors : SetError(error)
    \/ \E error \in FlagErrors : EmitForError(error, 7)
    \/ Emit(7)

SpecError == ErrorInit /\ [][ErrorNext]_vars

(***************************************************************************)
(* personhog-router: with_retry (rust/personhog-router/src/backend/retry.rs)*)
(***************************************************************************)
\* tonic::Code
Codes ==
    {"Ok", "Cancelled", "Unknown", "InvalidArgument", "DeadlineExceeded",
     "NotFound", "AlreadyExists", "PermissionDenied", "ResourceExhausted",
     "FailedPrecondition", "Aborted", "OutOfRange", "Unimplemented",
     "Internal", "Unavailable", "DataLoss", "Unauthenticated"}

is_retryable_all_errors(code) == code # "Ok"

is_retryable(code) == code \in {"Unavailable", "DeadlineExceeded", "Internal"}

\* RetryConfig values: delays small enough to list every jitter, with
\* initial_backoff_ms below, at and above max_backoff_ms
InitialBackoffs == {1, 2, 5}
MaxBackoffs == {1, 4}
RetryConfigs ==
    [max_retries : 0..MaxRetryLimit,
     initial_backoff_ms : InitialBackoffs,
     max_backoff_ms : MaxBackoffs]

Min(a, b) == IF a <= b THEN a ELSE b

with_retry_match_retries_last(config, attempt, outcome) ==
    IF outcome = "Ok" THEN "ok"
    ELSE IF attempt <= config.max_retries /\ is_retryable(outcome) THEN "retry"
    ELSE "err"

\* the arm that the match on the outcome of make_call takes in iteration
\* `attempt`; the outcome is Ok or the code of the status
with_retry_match(config, attempt, outcome) ==
    IF outcome = "Ok" THEN "ok"
    ELSE IF attempt < config.max_retries /\ is_retryable(outcome) THEN "retry"
    ELSE "err"

\* let base = delay_ms / 2
backoff_base(delay_ms) == delay_ms \div 2

\* base + gen_range(0..=base)
jittered_ms(delay_ms, jitter) == backoff_base(delay_ms) + jitter

\* delay_ms = (delay_ms * 2).min(config.max_backoff_ms)
next_delay_ms(delay_ms, config) == Min(delay_ms * 2, config.max_backoff_ms)

\* with_retry(config, ..) is entered: delay_ms is set and the loop starts
with_retry_enter(config) ==
    [pc |-> "call", config |-> config, attempt |-> 0,
     delay_ms |-> config.initial_backoff_ms,
     calls |-> <<>>, sleeps |-> <<>>, delays |-> <<>>,
     retries_total |-> 0, result |-> None]

\* make_call().await completes with `outcome` and the match runs up to its
\* return or to the sleep
MakeCall(outcome) ==
    /\ retry.pc = "call"
    /\ \E arm \in {with_retry_match(retry.config, retry.attempt, outcome)} :
          retry' = [retry EXCEPT
              !.calls = Append(@, outcome),
              !.retries_total = IF arm = "retry" THEN @ + 1 ELSE @,
              !.pc = IF arm = "retry" THEN "sleep" ELSE "done",
              !.result = IF arm = "ok" THEN Some(Ok("value"))
                         ELSE IF arm = "err" THEN Some(Err(outcome))
                         ELSE @]
    /\ last' = [op |-> "make_call", who |-> NoTask, thread |-> "-"]
    /\ UNCHANGED <<logVars, flagVars, poolVars, merged, emitVars, limiter, dispatch, returned>>

\* the sleep of the retry arm ends: the delay is doubled up to the cap and
\* the loop goes to its next iteration, or ends when the range is exhausted
Sleep ==
    /\ retry.pc = "sleep"
    /\ \E jitter \in 0..backoff_base(retry.delay_ms) :
          retry' = [retry EXCEPT
              !.sleeps = Append(@, jittered_ms(retry.delay_ms, jitter)),
              !.delays = Append(@, retry.delay_ms),
              !.delay_ms = next_delay_ms(@, retry.config),
              !.attempt = @ + 1,
              !.pc = IF retry.attempt + 1 <= retry.config.max_retries
                     THEN "call" ELSE "unreachable"]
    /\ last' = [op |-> "sleep", who |-> NoTask, thread |-> "-"]
    /\ UNCHANGED <<logVars, flagVars, poolVars, merged, emitVars, limiter, dispatch, returned>>

RetryInit ==
    /\ retry \in {with_retry_enter(config) : config \in RetryConfigs}
    /\ limiter = NoLimiter
    /\ dispatch = NoDispatch
    /\ returned = NoneReturned
    /\ guards = [th \in Threads |-> 0]
    /\ invocation = [th \in Threads |-> None]
    /\ merged = NothingMerged
    /\ line = None
    /\ emitted = <<>>
    /\ CANONICAL_LOG = [t \in Tasks |-> <<>>]
    /\ RAYON_CANONICAL_LOG = [th \in Threads |-> None]
    /\ expect = [t \in Tasks |-> <<>>]
    /\ team_negative_cache = {}
    /\ pgTeams = {}
    /\ cached = {}
    /\ pending = [t \in Tasks |-> None]
    /\ flagsPg = [id \in TeamIds |-> <<>>]
    /\ flagsCache = [id \in TeamIds |-> None]
    /\ last = [op |-> "init", who |-> NoTask, thread |-> "-"]

RetryNext ==
    \/ \E outcome \in Codes : MakeCall(outcome)
    \/ Sleep

\* the awaited call completes and the timer of the sleep fires
SpecRetry == RetryInit /\ [][RetryNext]_vars /\ WF_vars(RetryNext)

(***************************************************************************)
(* capture: GlobalRateLimiter (rust/capture/src/global_rate_limiter.rs)    *)
(***************************************************************************)
LimiterKeys == {"registered", "unknown_key"}
EventCounts == {1, 2}

\* EvalResult, for a check of `key`
EvalResults(key) ==
    {[kind |-> "Allowed"], [kind |-> "NotApplicable"]}
    \cup {[kind |-> "Limited",
           response |-> [key |-> key, is_custom_limited |-> custom]] :
              custom \in BOOLEAN}

\* a result that is not read, because its check is not made
NotChecked == [kind |-> "Allowed"]

\* self.limiter.is_custom_key(key)
is_custom_key(custom_keys, key) == key \in custom_keys

\* is_global_key_limited: check_limit is called and answers `result`
is_global_key_limited(key, count, result) ==
    [res |-> IF result.kind = "Limited" THEN Some(result.response) ELSE None,
     calls |-> << <<"check_limit", key, count>> >>]

\* is_custom_key_limited: check_custom_limit is called and answers `result`
is_custom_key_limited(key, count, result) ==
    [res |-> IF result.kind = "Limited" THEN Some(result.response) ELSE None,
     calls |-> << <<"check_custom_limit", key, count>> >>]

is_limited_falls_through(custom_keys, key, count, global_result, custom_result) ==
    LET custom == is_custom_key_limited(key, count, custom_result)
        global == is_global_key_limited(key, count, global_result)
        asked == << <<"is_custom_key", key, 0>> >>
    IN IF is_custom_key(custom_keys, key)
       THEN IF custom.res # None
            THEN [res |-> custom.res, calls |-> asked \o custom.calls]
            ELSE [res |-> global.res, calls |-> asked \o custom.calls \o global.calls]
       ELSE [res |-> global.res, calls |-> asked \o global.calls]

\* GlobalRateLimiter::is_limited(key, count): what it returns and the calls
\* it makes to the inner limiter, which would answer global_result to
\* check_limit and custom_result to check_custom_limit
is_limited(custom_keys, key, count, global_result, custom_result) ==
    LET custom == is_custom_key_limited(key, count, custom_result)
        global == is_global_key_limited(key, count, global_result)
        asked == << <<"is_custom_key", key, 0>> >>
    IN IF is_custom_key(custom_keys, key)
       THEN [res |-> custom.res, calls |-> asked \o custom.calls]
       ELSE [res |-> global.res, calls |-> asked \o global.calls]

\* the calls of is_limited made so far, by the log of the inner limiter
LimiterCalls ==
    Cardinality({i \in DOMAIN limiter.calls : limiter.calls[i][1] = "is_custom_key"})

\* a request handler calls is_limited(key, count)
IsLimited(key, count, global_result, custom_result) ==
    /\ LimiterCalls < MaxLimiterCalls
    /\ IF is_custom_key(limiter.custom_keys, key)
       THEN global_result = NotChecked ELSE custom_result = NotChecked
    /\ \E r \in {is_limited(limiter.custom_keys, key, count, global_result,
                             custom_result)} :
          /\ limiter' = [limiter EXCEPT !.calls = @ \o r.calls]
          /\ last' = [op |-> "is_limited", who |-> NoTask, thread |-> "-",
                      key |-> key, count |-> count,
                      global_result |-> global_result,
                      custom_result |-> custom_result,
                      res |-> r.res, calls |-> r.calls]
    /\ UNCHANGED <<logVars, flagVars, poolVars, merged, emitVars, retry, dispatch, returned>>

\* GlobalRateLimiter::new: the custom keys come from the configuration
LimiterInit ==
    /\ \E keys \in SUBSET LimiterKeys : limiter = [custom_keys |-> keys, calls |-> <<>>]
    /\ dispatch = NoDispatch
    /\ returned = NoneReturned
    /\ retry = NoRetry
    /\ guards = [th \in Threads |-> 0]
    /\ invocation = [th \in Threads |-> None]
    /\ merged = NothingMerged
    /\ line = None
    /\ emitted = <<>>
    /\ CANONICAL_LOG = [t \in Tasks |-> <<>>]
    /\ RAYON_CANONICAL_LOG = [th \in Threads |-> None]
    /\ expect = [t \in Tasks |-> <<>>]
    /\ team_negative_cache = {}
    /\ pgTeams = {}
    /\ cached = {}
    /\ pending = [t \in Tasks |-> None]
    /\ flagsPg = [id \in TeamIds |-> <<>>]
    /\ flagsCache = [id \in TeamIds |-> None]
    /\ last = [op |-> "init", who |-> NoTask, thread |-> "-"]

LimiterNext ==
    \E key \in LimiterKeys, count \in EventCounts :
    \E global_result \in EvalResults(key), custom_result \in EvalResults(key) :
        IsLimited(key, count, global_result, custom_result)

SpecLimiter == LimiterInit /\ [][LimiterNext]_vars

(***************************************************************************)
(* Properties of the canonical log.                                        *)
(***************************************************************************)

\* C6: with_canonical_log gives the task-local precedence. A call made inside
\* an active run_with_canonical_log scope applies the closure to that scope's
\* log and leaves every thread's fragment as it was; the fragment of the
\* current thread changes only when the caller is inside no scope.
C6_TaskScopePrecedence ==
    [][ last'.op = "with_log" =>
          LET st == ScopeOf(CANONICAL_LOG, last'.who)
          IN /\ Len(st) > 0 =>
                  /\ RAYON_CANONICAL_LOG' = RAYON_CANONICAL_LOG
                  /\ ScopeOf(CANONICAL_LOG', last'.who) =
                         [st EXCEPT ![Len(st)] = ApplyMut(last'.mut, @)]
             /\ RAYON_CANONICAL_LOG'[last'.thread] # RAYON_CANONICAL_LOG[last'.thread]
                  => Len(st) = 0 ]_vars

\* a call inside a scope, on a thread that holds a fragment: the scope's log
\* has the counter, the fragment does not
C6_Witness ==
    /\ last.op = "with_log" /\ last.scoped /\ last.frag
    /\ last.mut.kind = "add"
    /\ Top(CANONICAL_LOG[last.who]).property_cache_hits = 1
    /\ RAYON_CANONICAL_LOG[last.thread] = Some(FlagsCanonicalLogLine_default)

\* C7: with_canonical_log called inside no scope, on a thread that holds no
\* fragment, changes no log at all; a scope opened later holds the log it was
\* opened with and a fragment installed later is the default one.
C7_NoScopeIsNoOp ==
    [][ /\ ( /\ last'.op = "with_log"
             /\ Len(ScopeOf(CANONICAL_LOG, last'.who)) = 0
             /\ RAYON_CANONICAL_LOG[last'.thread] = None )
           => /\ CANONICAL_LOG' = CANONICAL_LOG
              /\ RAYON_CANONICAL_LOG' = RAYON_CANONICAL_LOG
        /\ last'.op = "scope_enter" => Top(CANONICAL_LOG'[last'.who]) = last'.init
        /\ last'.op = "install" =>
              RAYON_CANONICAL_LOG'[last'.thread] = Some(FlagsCanonicalLogLine_default)
      ]_vars

C7_Witness ==
    /\ last.op = "with_log" /\ ~last.scoped /\ ~last.frag
    /\ \A t \in Tasks : CANONICAL_LOG[t] = <<>>
    /\ \A th \in Threads : RAYON_CANONICAL_LOG[th] = None

\* C8: run_with_canonical_log returns the future's result and the log it was
\* given with exactly the closures applied that with_canonical_log was handed
\* inside the scope, in their order (expect holds that log).
C8_RunScopedReturnsAccumulatedLog ==
    last.op = "scope_exit" =>
        last.ret = [result |-> last.result, log |-> last.expected]

C8_Witness ==
    /\ last.op = "scope_exit"
    /\ last.ret.result = "failed"
    /\ last.ret.log.team_id = Some(1)
    /\ last.ret.log.property_cache_hits = 1

\* C9: a scope opened inside a scope shadows it. Opening the inner scope
\* leaves the outer logs as they are, a call inside the inner scope changes
\* the innermost log only, the end of the inner scope leaves the outer logs
\* with what they held, and a call after it changes the outer log again.
C9_NestedScopeShadows ==
    [][ \A t \in Tasks : last'.who = t =>
          LET st == CANONICAL_LOG[t]
              d == Len(st)
          IN /\ last'.op = "scope_enter" => CANONICAL_LOG'[t] = Append(st, last'.init)
             /\ (last'.op = "with_log" /\ d >= 1) =>
                    CANONICAL_LOG'[t] = [st EXCEPT ![d] = ApplyMut(last'.mut, @)]
             /\ last'.op = "scope_exit" => CANONICAL_LOG'[t] = SubSeq(st, 1, d - 1)
      ]_vars

\* the inner scope has ended and returned its own team_id; the outer log
\* still holds the team_id set before the inner scope was opened
C9_Witness ==
    /\ last.op = "scope_exit"
    /\ Len(CANONICAL_LOG[last.who]) = 1
    /\ CANONICAL_LOG[last.who][1].team_id = Some(1)
    /\ last.ret.log.team_id = Some(2)
    /\ last.ret.log.request_id = <<last.who, 2>>

\* C10: the task-local logs of concurrently running tasks are isolated. A
\* step of one task leaves the scopes of every other task as they were, and
\* the log a task gets back is the one opened by that task with that task's
\* closures alone.
C10_TasksAreIsolated ==
    [][ /\ \A t \in Tasks : last'.who = t =>
               \A u \in Tasks \ {t} : CANONICAL_LOG'[u] = CANONICAL_LOG[u]
        /\ last'.op = "scope_exit" =>
               /\ last'.ret.log = last'.expected
               /\ last'.ret.log.request_id[1] = last'.who
      ]_vars

\* both tasks are inside a scope, each log holds its own task's team_id
C10_Witness ==
    /\ last.op = "scope_exit" /\ last.who = "t1"
    /\ last.ret.log.team_id = Some(1)
    /\ Len(CANONICAL_LOG["t2"]) = 1
    /\ CANONICAL_LOG["t2"][1].team_id = Some(2)
    /\ CANONICAL_LOG["t2"][1].property_cache_hits = 1

(***************************************************************************)
(* Properties of verify_token_and_get_team and the negative cache.         *)
(***************************************************************************)
\* the causes of a failed verify_token_and_get_team that are no
\* "token not found"
OtherCauses == {"DatabaseUnavailable", "TimeoutError", "Internal", "DataParsingError"}

\* a token that resolves to a team right now, in a cache tier or in the
\* primary store
Resolves(token) == token \in cached \/ token \in pgTeams

\* C1: a call of verify_token_and_get_team that fails for a reason other than
\* "token not found" (the store unavailable or timed out, a serialization or
\* parsing error) leaves the negative cache exactly as it was before the call.
C1_OtherFailuresInsertNothing ==
    (last.op = "verify" /\ ~last.res.ok /\ ~is_token_not_found(last.cause))
        => team_negative_cache = last.negBefore

\* a lookup failed on an unavailable store while the cache held another token
C1_Witness ==
    /\ last.op = "verify" /\ last.step = "lookup"
    /\ last.cause = "DatabaseUnavailable"
    /\ last.negBefore # {} /\ last.token \notin last.negBefore
    /\ team_negative_cache = last.negBefore

\* C2: a call whose lookup fails with "token not found" has inserted the token
\* when it returns: the negative cache contains the token right after the
\* call, and the call returns TokenValidationError.
C2_NotFoundIsInserted ==
    (last.op = "verify" /\ last.step = "lookup" /\ is_token_not_found(last.cause))
        => /\ NegativeCache_contains(team_negative_cache, last.token)
           /\ last.res = Err("TokenValidationError")

C2_Witness ==
    /\ last.op = "verify" /\ last.step = "lookup"
    /\ last.cause = "RowNotFound"
    /\ last.token \notin last.negBefore
    /\ last.token \in team_negative_cache

\* C3: a call made while the negative cache contains its token returns
\* TokenValidationError at once: it reads no cache tier and no store, and no
\* lookup is left pending.
C3_NegativeHitShortCircuits ==
    (last.op \in {"verify", "verify_pending"} /\ last.step = "check"
        /\ NegativeCache_contains(last.negBefore, last.token))
        => /\ last.op = "verify"
           /\ last.res = Err("TokenValidationError")
           /\ last.ops = 0
           /\ pending[last.who] = None

\* a hit on a token that the tiers and the store would resolve by now
C3_Witness ==
    /\ last.op = "verify" /\ last.step = "check"
    /\ last.cause = "negative_cache" /\ last.ops = 0
    /\ last.token \in last.negBefore
    /\ last.token \in cached /\ last.token \in pgTeams

\* C4 as stated: after a call of verify_token_and_get_team no token that
\* resolves to a team, in a cache tier or in the primary store, is in the
\* negative cache.
C4_ValidNeverNegative ==
    last.op = "verify" =>
        \A token \in Tokens : Resolves(token) => token \notin team_negative_cache

\* C4, amended: a token enters the negative cache only in a call of
\* verify_token_and_get_team for that token in which the primary store
\* reported that it has no row for it, and a call that returns a team leaves
\* the negative cache unchanged.
C4_InsertedOnlyWhenStoreLacksToken ==
    [][ /\ \A token \in team_negative_cache' \ team_negative_cache :
              /\ last'.op = "verify" /\ last'.token = token
              /\ last'.cause = "RowNotFound"
              /\ token \notin pgTeams
        /\ (last'.op = "verify" /\ last'.res.ok)
              => team_negative_cache' = team_negative_cache ]_vars

\* a token of the primary store resolved while the cache held the other token
C4_Witness ==
    /\ last.op = "verify" /\ last.res.ok
    /\ last.res.val = TeamOf(last.token)
    /\ last.token \in pgTeams
    /\ team_negative_cache # {} /\ team_negative_cache = last.negBefore

\* C5: verify_token_and_get_team returns the team of the token or the one
\* error TokenValidationError, whatever made it fail.
C5_TeamOrTokenValidationError ==
    last.op = "verify" =>
        \/ last.res.ok /\ last.res.val.api_token = last.token
        \/ last.res = Err("TokenValidationError")

\* a payload that is no team, and a failed serialization, are answered alike
C5_Witness ==
    /\ last.op = "verify"
    /\ last.cause \in {"DataParsingError", "Internal"}
    /\ last.res = Err("TokenValidationError")

(***************************************************************************)
(* Properties of the pool threads' fragments.                              *)
(***************************************************************************)
AbortedPhases == {"aborted", "aborted_counted"}

\* C11: on a thread with no task scope, install, then any with_canonical_log
\* calls, then take: the fragment taken is the default fragment with exactly
\* the mutations made since the install, applied in order.
C11_InstallTakeRoundTrips ==
    (last.op = "take" /\ last.phase = "open") => last.taken = last.expected

C11_Witness ==
    /\ last.op = "take" /\ last.phase = "open"
    /\ last.taken = Some([FlagsCanonicalLogLine_default EXCEPT
                              !.property_cache_hits = 1, !.team_id = Some(1)])

\* C12: take removes the fragment it returns. The take that follows an
\* install returns a fragment, every take until the next install returns
\* None, and after any take the slot of the thread is empty.
C12_TakeRemovesFragment ==
    last.op = "take" =>
        /\ RAYON_CANONICAL_LOG[last.thread] = None
        /\ last.phase = "open" => last.taken # None
        /\ last.phase # "open" => last.taken = None

\* a second take while the guard of the invocation is still alive
C12_Witness ==
    /\ last.op = "take" /\ last.phase = "empty"
    /\ last.taken = None
    /\ guards[last.thread] > 0
    /\ RAYON_CANONICAL_LOG[last.thread] = None

\* C13: a panic inside a guarded scope leaves the slot of the thread empty
\* (the guard is dropped while the stack unwinds): a take after the panic
\* returns None, the next install stores the default fragment and the take
\* after it returns only what was written since that install.
C13_PanicLeavesNoFragment ==
    /\ last.op = "panic" => RAYON_CANONICAL_LOG[last.thread] = None
    /\ (last.op = "take" /\ last.phase \in AbortedPhases) => last.taken = None
    /\ (last.op = "install" /\ last.over \in AbortedPhases)
          => RAYON_CANONICAL_LOG[last.thread] = Some(FlagsCanonicalLogLine_default)
    /\ (last.op = "take" /\ last.phase = "open" /\ last.after \in AbortedPhases)
          => last.taken = last.expected

\* the invocation that panicked had counted; the next one takes zeroes
C13_Witness ==
    /\ last.op = "take" /\ last.phase = "open"
    /\ last.after = "aborted_counted"
    /\ last.taken = Some(FlagsCanonicalLogLine_default)

\* C14: install leaves the slot of the thread with the default fragment,
\* whatever it held; what an earlier fragment that was never taken had counted
\* is not in the fragment taken after the new install.
C14_InstallStartsFromZero ==
    /\ last.op = "install"
          => RAYON_CANONICAL_LOG[last.thread] = Some(FlagsCanonicalLogLine_default)
    /\ (last.op = "take" /\ last.phase = "open" /\ last.after = "counted")
          => last.taken = last.expected

C14_Witness ==
    /\ last.op = "take" /\ last.phase = "open"
    /\ last.after = "counted"
    /\ last.taken = Some(FlagsCanonicalLogLine_default)

\* C15: the fragments are per thread. The slot of each thread holds the
\* default fragment with the mutations made on that thread since its install
\* and nothing else, under every interleaving, and a take returns it.
C15_ThreadsAreIsolated ==
    /\ \A th \in PoolThreads :
           RAYON_CANONICAL_LOG[th] = ExpectedSlot(invocation[th])
    /\ last.op = "take" => last.taken = last.expected

\* both threads hold a fragment; w1 has counted, w2 has set the team
C15_Witness ==
    /\ last.op = "take" /\ last.thread = "w1"
    /\ last.taken = Some([FlagsCanonicalLogLine_default EXCEPT
                              !.property_cache_hits = 1])
    /\ RAYON_CANONICAL_LOG["w2"] =
           Some([FlagsCanonicalLogLine_default EXCEPT !.team_id = Some(1)])

(***************************************************************************)
(* Properties of merge_rayon_delta.                                        *)
(***************************************************************************)
SummedFields == {"flags_device_id_bucketing", "cohorts_evaluated",
                 "property_cache_hits", "property_cache_misses"}
OrFields == {"person_properties_not_cached", "group_properties_not_cached"}
QueryFields == {"person_queries", "group_queries", "static_cohort_queries",
                "db_property_fetches", "person_query_time_ms",
                "group_query_time_ms", "cohort_query_time_ms"}
RequestFields == {"request_id", "ip", "start_time", "team_id", "distinct_id",
                  "http_status", "error_code", "team_cache_source",
                  "flags_evaluated", "flags_errored"}

\* the log of the request now, and as it was before any merge
MergedLog == Top(CANONICAL_LOG["t1"])
UnmergedLog == merged.into[1]

\* C16: a merge sets each of the four counters to its value before plus the
\* delta's, and each of the two booleans to its value before OR the delta's;
\* a boolean that any merge made true is true from then on, and the merge of
\* a default delta changes nothing.
C16_MergeSumsAndOrs ==
    last.op = "merge" =>
        /\ \A f \in SummedFields : MergedLog[f] = last.before[f] + last.delta[f]
        /\ \A f \in OrFields : MergedLog[f] = (last.before[f] \/ last.delta[f])
        /\ \A f \in OrFields :
              (UnmergedLog[f] \/ \E i \in 1..Len(merged.deltas) : merged.deltas[i][f])
                  => MergedLog[f]
        /\ last.delta = FlagsCanonicalLogLine_default => MergedLog = last.before

\* counters are added to counters that were there, and a boolean that was
\* true stays true under a delta that has it false
C16_Witness ==
    /\ last.op = "merge"
    /\ last.before.property_cache_hits = 1 /\ last.delta.property_cache_hits = 1
    /\ MergedLog.property_cache_hits = 2 /\ MergedLog.property_cache_misses = 2
    /\ last.before.person_properties_not_cached
    /\ ~last.delta.person_properties_not_cached
    /\ MergedLog.person_properties_not_cached

\* C17 as stated: a merge also sums the query counts and the query timings
\* of the delta into the log.
C17_QueryCountersMerged ==
    last.op = "merge" =>
        \A f \in QueryFields : MergedLog[f] = last.before[f] + last.delta[f]

\* C17, amended: a merge sums the four evaluation counters and ORs the two
\* booleans only; the query counts and the query timings of the log keep
\* their values, whatever the delta carries for them.
C17_QueryCountersNotMerged ==
    last.op = "merge" =>
        /\ \A f \in SummedFields : MergedLog[f] = last.before[f] + last.delta[f]
        /\ \A f \in OrFields : MergedLog[f] = (last.before[f] \/ last.delta[f])
        /\ \A f \in QueryFields : MergedLog[f] = last.before[f]

\* the delta carried a person query and its time; the log has neither
C17_Witness ==
    /\ last.op = "merge"
    /\ last.delta.person_queries = 1 /\ last.delta.person_query_time_ms = 5
    /\ last.delta.property_cache_hits = 1
    /\ MergedLog.person_queries = 1 /\ MergedLog.person_query_time_ms = 4
    /\ MergedLog.property_cache_hits = last.before.property_cache_hits + 1

RECURSIVE MergeAll(_, _)
MergeAll(log, deltas) ==
    IF deltas = <<>> THEN log
    ELSE MergeAll(merge_rayon_delta(log, Head(deltas)), Tail(deltas))

Reverse(seq) == [i \in 1..Len(seq) |-> seq[Len(seq) + 1 - i]]

RECURSIVE SumOf(_, _)
SumOf(deltas, f) ==
    IF deltas = <<>> THEN 0 ELSE Head(deltas)[f] + SumOf(Tail(deltas), f)

\* one delta in place of many: the sums of their counters, the ORs of their
\* booleans
Combined(deltas) ==
    [FlagsCanonicalLogLine_default EXCEPT
        !.flags_device_id_bucketing = SumOf(deltas, "flags_device_id_bucketing"),
        !.cohorts_evaluated = SumOf(deltas, "cohorts_evaluated"),
        !.property_cache_hits = SumOf(deltas, "property_cache_hits"),
        !.property_cache_misses = SumOf(deltas, "property_cache_misses"),
        !.person_properties_not_cached =
            \E i \in 1..Len(deltas) : deltas[i].person_properties_not_cached,
        !.group_properties_not_cached =
            \E i \in 1..Len(deltas) : deltas[i].group_properties_not_cached]

\* C18: the order of the merges does not matter. The log after the merges
\* is the log that the same deltas give in the reverse order, and the log
\* that one merge of their combination gives.
C18_MergeOrderIndependent ==
    Len(merged.deltas) >= 2 =>
        /\ MergedLog = MergeAll(UnmergedLog, Reverse(merged.deltas))
        /\ MergedLog = merge_rayon_delta(UnmergedLog, Combined(merged.deltas))

\* two different deltas, one with counters and one with a boolean
C18_Witness ==
    /\ Len(merged.deltas) >= 2
    /\ merged.deltas[1] = Delta(1, "person", FALSE, FALSE)
    /\ merged.deltas[2] = Delta(0, "group", FALSE, FALSE)
    /\ MergedLog.person_properties_not_cached
    /\ MergedLog.group_properties_not_cached
    /\ MergedLog.property_cache_misses = 2

\* C19: a merge leaves the request-level fields of the log as they were,
\* whatever the delta carries for them: after any merges they have the
\* values they had before the first.
C19_MergeKeepsRequestFields ==
    /\ last.op = "merge" => \A f \in RequestFields : MergedLog[f] = last.before[f]
    /\ merged.into # None => \A f \in RequestFields : MergedLog[f] = UnmergedLog[f]

\* the delta carried another team, status and request id
C19_Witness ==
    /\ last.op = "merge"
    /\ last.delta.team_id = Some(2) /\ last.delta.http_status = 500
    /\ last.delta.flags_evaluated = 7
    /\ MergedLog.team_id = Some(1) /\ MergedLog.http_status = 200
    /\ MergedLog.flags_evaluated = 2
    /\ MergedLog.request_id = <<"t1", 1>>

(***************************************************************************)
(* Properties of truncate_chars and emit.                                  *)
(***************************************************************************)
\* the characters of a string: its first bytes
CharCount(s) == Cardinality({i \in 1..Len(s) : s[i][2] = 1})

IsPrefix(out, s) ==
    /\ Len(out) <= Len(s)
    /\ \A i \in 1..Len(out) : out[i] = s[i]

\* out is the first min(n, characters of s) whole characters of s
TruncatedTo(s, n, out) ==
    /\ IsPrefix(out, s)
    /\ CharCount(out) = IF n < CharCount(s) THEN n ELSE CharCount(s)
    /\ CharCount(out) <= n
    /\ Len(out) < Len(s) => s[Len(out) + 1][2] = 1
    /\ CharCount(s) <= n => out = s
    /\ n = 0 => out = <<>>

\* C20: truncate_chars(s, n) is the prefix of s made of its first
\* min(n, characters of s) whole characters: never more than n characters,
\* never a part of a character, s itself when s has at most n characters, empty
\* when n = 0. emit writes the user agent truncated so with n = 512.
C20_TruncationCountsCharacters ==
    /\ last.op = "truncate_chars"
          => TruncatedTo(last.s, last.max_chars, last.out)
    /\ last.op = "emit" =>
          LET written == emitted[Len(emitted)].user_agent
          IN IF line[1].user_agent = None THEN written = None
             ELSE /\ written # None
                  /\ TruncatedTo(line[1].user_agent[1], UserAgentMaxChars, written[1])

\* a user agent of 511 four-byte characters and three more characters is
\* written as its first 512 characters, 2046 bytes
C20_Witness ==
    /\ last.op = "emit"
    /\ line[1].user_agent # None
    /\ CharCount(line[1].user_agent[1]) = 514
    /\ Len(line[1].user_agent[1]) = 2048
    /\ CharCount(emitted[Len(emitted)].user_agent[1]) = 512
    /\ Len(emitted[Len(emitted)].user_agent[1]) = 2046

(***************************************************************************)
(* Properties of set_error and emit_for_error.                             *)
(***************************************************************************)
\* the status and the code the specification names for three of the variants
NamedErrors ==
    { <<"TokenValidationError", 401, "invalid_token">>,
      <<"DatabaseUnavailable", 503, "database_unavailable">>,
      <<"Internal", 500, "internal_error">> }

\* the step was made by emit_for_error(error)
EmitForErrorStep(error) ==
    /\ last'.op = "emit_for_error"
    /\ last'.error = error

\* C21: emit_for_error(error) stores on the log the HTTP status and the error
\* code of the error's variant (401 and "invalid_token" for
\* TokenValidationError, 503 and "database_unavailable" for
\* DatabaseUnavailable, 500 and "internal_error" for Internal), whatever the
\* log held there before, changes no other field of the log, and writes one
\* record that carries the stored status and code; emit changes no field of
\* the log.
C21_EmitForErrorStoresStatusAndCode ==
    [][/\ \A row \in ErrorTable :
            EmitForErrorStep(row[1]) =>
                /\ line'[1].http_status = row[2]
                /\ line'[1].error_code = Some(row[3])
                /\ \A f \in DOMAIN line[1] \ {"http_status", "error_code"} :
                       line'[1][f] = line[1][f]
                /\ Len(emitted') = Len(emitted) + 1
                /\ SubSeq(emitted', 1, Len(emitted)) = emitted
                /\ emitted'[Len(emitted')].http_status = row[2]
                /\ emitted'[Len(emitted')].error_code = Some(row[3])
       /\ NamedErrors \subseteq ErrorTable
       /\ last'.op = "emit" => line' = line
      ]_vars

\* emit_for_error(DatabaseUnavailable) has overwritten the status and the code
\* of an earlier error and has written its record
C21_Witness ==
    /\ last.op = "emit_for_error"
    /\ last.error = "DatabaseUnavailable"
    /\ last.overwrote
    /\ line[1].http_status = 503
    /\ line[1].error_code = Some("database_unavailable")
    /\ Len(emitted) = 1
    /\ emitted[1].error_code = Some("database_unavailable")

(***************************************************************************)
(* Properties of get_flags_from_cache_or_pg.                               *)
(***************************************************************************)
\* the operations that write to a cache tier
TierWrites == {"set", "set_bytes"}

\* C22: get_flags_from_cache_or_pg is read-only toward the cache tiers: under
\* every outcome of the tiers, of the loader and of the parser, the call
\* issues no set or set_bytes to a tier and leaves what the tiers hold as it
\* was.
C22_FetchFlagsWritesNoTier ==
    [][last'.op = "fetch_flags" =>
          /\ flagsCache' = flagsCache
          /\ \A i \in DOMAIN last'.calls : last'.calls[i][2] \notin TierWrites
      ]_vars

\* the flags came from the loader after both tiers missed; the tiers were
\* read and still hold nothing for the team
C22_Witness ==
    /\ last.op = "fetch_flags"
    /\ last.r1 = "miss" /\ last.r2 = "miss"
    /\ last.res.ok
    /\ last.res.val.cache_source = "Fallback"
    /\ last.res.val.flag_list = <<"beta_feature">>
    /\ Len(last.calls) = 2
    /\ flagsCache[last.team_id] = None

\* what a tier answers when it does not satisfy the read
TierPasses == {"miss", "timeout", "unavailable"}

\* the loader was invoked and succeeded
LoaderSucceeded ==
    /\ last.loads = 1
    /\ last.fault = "none"
    /\ last.serOk

\* the tier that answered the read held the flag list
TierHeldFlags ==
    \/ last.r1 = "hit"
    \/ last.r1 \in TierPasses /\ last.r2 = "hit"

\* C23: when the fast tier misses, times out or is unavailable and the loader
\* of the primary store succeeds, get_flags_from_cache_or_pg returns the
\* loader's flag list with cache_source Fallback; when a tier holds the flag
\* list, it returns that list with a cache_source other than Fallback and the
\* loader is not invoked.
C23_FallbackOnTierFailure ==
    last.op = "fetch_flags" =>
        /\ (last.r1 \in TierPasses /\ LoaderSucceeded) =>
               /\ last.res.ok
               /\ last.res.val.flag_list = flagsPg[last.team_id]
               /\ last.res.val.cache_source = "Fallback"
        /\ TierHeldFlags =>
               /\ last.res.ok
               /\ last.res.val.flag_list = flagsCache[last.team_id][1]
               /\ last.res.val.cache_source \in {"Redis", "S3"}
               /\ last.loads = 0

\* the fast tier timed out, the second was unavailable, and the loader's list
\* was returned although the writer had cached an older one
C23_Witness ==
    /\ last.op = "fetch_flags"
    /\ last.r1 = "timeout" /\ last.r2 = "unavailable"
    /\ flagsCache[last.team_id] # None
    /\ flagsCache[last.team_id] # Some(flagsPg[last.team_id])
    /\ last.res.ok
    /\ last.res.val.flag_list = flagsPg[last.team_id]
    /\ last.res.val.cache_source = "Fallback"

(***************************************************************************)
(* Properties of the telemetry of verify_token_and_get_team.               *)
(***************************************************************************)
\* how many times the call has incremented a counter with a label
Increments(metrics, counter, label) ==
    Cardinality({i \in DOMAIN metrics : metrics[i] = <<counter, label>>})

\* the canonical log that is active for the caller of the last operation
ActiveLog ==
    IF last.who \in Tasks /\ CANONICAL_LOG[last.who] # <<>>
    THEN Some(Top(CANONICAL_LOG[last.who]))
    ELSE RAYON_CANONICAL_LOG[last.thread]

\* the label the active log holds as team_cache_source, if a log is active
SourceLogged(label) ==
    ActiveLog # None => ActiveLog[1].team_cache_source = Some(label)

\* the lookup of the last step returned a team
LookupReturnedTeam ==
    /\ last.op = "verify" /\ last.step = "lookup"
    /\ last.res.ok

\* C24: when the lookup misses every tier and the loader returns the team,
\* verify_token_and_get_team returns that team, the active log's
\* team_cache_source is "fallback" and TEAM_CACHE_HIT_COUNTER is incremented
\* once, with cache_hit=false; when a tier satisfies the lookup the counter is
\* incremented once, with cache_hit=true, and team_cache_source names the tier.
C24_SourceAndHitCounter ==
    LookupReturnedTeam =>
        /\ last.source = "Fallback" =>
               /\ last.res.val = TeamOf(last.token)
               /\ last.token \in pgTeams
               /\ SourceLogged("fallback")
               /\ Increments(last.metrics, "TEAM_CACHE_HIT_COUNTER", "false") = 1
               /\ Increments(last.metrics, "TEAM_CACHE_HIT_COUNTER", "true") = 0
        /\ last.source \in {"Redis", "S3"} =>
               /\ last.res.val = TeamOf(last.token)
               /\ SourceLogged(IF last.source = "Redis" THEN "redis" ELSE "s3")
               /\ Increments(last.metrics, "TEAM_CACHE_HIT_COUNTER", "true") = 1
               /\ Increments(last.metrics, "TEAM_CACHE_HIT_COUNTER", "false") = 0

\* a task inside a scope has resolved a token through the loader: its log
\* names the fallback and the miss is counted once
C24_Witness ==
    /\ LookupReturnedTeam
    /\ last.source = "Fallback"
    /\ last.who = "t1"
    /\ ActiveLog # None
    /\ ActiveLog[1].team_cache_source = Some("fallback")
    /\ last.metrics = << <<"DB_TEAM_READS_COUNTER", "">>,
                         <<"TEAM_CACHE_HIT_COUNTER", "false">> >>

(***************************************************************************)
(* Properties of the error code after a failed token verification.         *)
(***************************************************************************)
\* what set_error stores for the error that verify_token_and_get_team returns
\* when the primary store has no team for the token
NotFoundErrorCode ==
    set_error(FlagsCanonicalLogLine_default,
              verify_token_and_get_team_match({}, "phc_a", Err("RowNotFound"),
                                              "phc_a").res.err).error_code

\* the handler has recorded the error of a verification that failed for
\* `cause`
ErrorRecordedFor(causes) ==
    /\ last.op = "handler_set_error"
    /\ last.cause \in causes

ReaderReturnedValue ==
    /\ last.op = "verify" /\ last.step = "lookup"
    /\ last.cause \in {"none", "DataParsingError"}

\* C30: on every call that the negative cache does not short-circuit and in
\* which the reader returns a payload and a source, the source is recorded in
\* the active log's team_cache_source and TEAM_CACHE_HIT_COUNTER is
\* incremented exactly once, whether the payload parses into a team or not.
C30_OutcomeRecordedBeforeParse ==
    ReaderReturnedValue =>
        /\ SourceLogged(as_log_str(last.source))
        /\ Increments(last.metrics, "TEAM_CACHE_HIT_COUNTER", "true")
             + Increments(last.metrics, "TEAM_CACHE_HIT_COUNTER", "false") = 1

(***************************************************************************)
(* Properties of with_retry.                                               *)
(***************************************************************************)
\* the codes after which with_retry is documented to retry
TransientCodes == {"Unavailable", "DeadlineExceeded", "Internal"}

\* every attempt made so far has failed with a transient code
AllAttemptsTransient ==
    \A i \in DOMAIN retry.calls : retry.calls[i] \in TransientCodes

\* the call has returned
Returned == retry.pc = "done"

\* C26: with_retry makes at most max_retries + 1 attempts and always returns
\* a result: exactly max_retries + 1 attempts when every attempt fails with a
\* retryable code, returning the status of the last attempt; exactly one
\* attempt when max_retries = 0; and the unreachable! after the loop is never
\* reached.
C26_AttemptsBoundedAndReturns ==
    /\ [](/\ retry.pc # "unreachable"
          /\ Len(retry.calls) <= retry.config.max_retries + 1
          /\ Returned =>
                /\ retry.result # None
                /\ Len(retry.calls) >= 1
                /\ AllAttemptsTransient =>
                      /\ Len(retry.calls) = retry.config.max_retries + 1
                      /\ retry.result = Some(Err(retry.calls[Len(retry.calls)]))
                /\ retry.config.max_retries = 0 => Len(retry.calls) = 1)
    /\ <>Returned

\* two retries were allowed and all three attempts failed with transient
\* codes: the call has returned the third status
C26_Witness ==
    /\ Returned
    /\ retry.config.max_retries = 2
    /\ retry.calls = <<"Unavailable", "Internal", "DeadlineExceeded">>
    /\ retry.result = Some(Err("DeadlineExceeded"))
    /\ Len(retry.sleeps) = 2

\* attempt i was followed by a sleep
Retried(i) ==
    \/ Len(retry.sleeps) >= i
    \/ i = Len(retry.calls) /\ retry.pc = "sleep"

\* C27: with_retry retries only after a failure with code Unavailable,
\* DeadlineExceeded or Internal: the first attempt that succeeds or fails with
\* any other code ends the call with that attempt's result, with no further
\* attempt and no sleep.
C27_RetriesOnlyTransient ==
    \A i \in DOMAIN retry.calls :
        /\ Retried(i) => retry.calls[i] \in TransientCodes
        /\ retry.calls[i] \notin TransientCodes =>
              /\ i = Len(retry.calls)
              /\ Returned
              /\ Len(retry.sleeps) = i - 1
              /\ retry.result = IF retry.calls[i] = "Ok" THEN Some(Ok("value"))
                                ELSE Some(Err(retry.calls[i]))

\* two retries were allowed and the first attempt failed with NotFound: the
\* call has returned that status after one attempt and no sleep
C27_Witness ==
    /\ Returned
    /\ retry.config.max_retries = 2
    /\ retry.calls = <<"NotFound">>
    /\ retry.sleeps = <<>>
    /\ retry.result = Some(Err("NotFound"))

\* C28: max_backoff_ms caps the backoff for every configuration: every sleep
\* lasts at most max_backoff_ms; the sleep before a retry lies between half of
\* the current delay and the current delay, where the delay starts at
\* initial_backoff_ms and doubles after each retry up to max_backoff_ms.
C28_SleepsCappedByMaxBackoff ==
    \A i \in DOMAIN retry.sleeps :
        /\ retry.sleeps[i] <= retry.config.max_backoff_ms
        /\ retry.delays[i] \div 2 <= retry.sleeps[i]
        /\ retry.sleeps[i] <= retry.delays[i]
        /\ retry.delays[i] =
              IF i = 1 THEN retry.config.initial_backoff_ms
              ELSE Min(2 * retry.delays[i - 1], retry.config.max_backoff_ms)

(***************************************************************************)
(* Properties of GlobalRateLimiter::is_limited.                            *)
(***************************************************************************)
\* how many times the last is_limited call has called `op` of the limiter
ChecksMade(op) ==
    Cardinality({i \in DOMAIN last.calls : last.calls[i][1] = op})

\* what the one check of the last call has answered
SingleCheckResult ==
    IF last.key \in limiter.custom_keys THEN last.custom_result
    ELSE last.global_result

\* C29: is_limited makes exactly one limit check per call: check_custom_limit
\* and never check_limit for a key registered as custom (also when the custom
\* check answers Allowed or NotApplicable), check_limit and never
\* check_custom_limit otherwise; it returns Some(response) exactly when that
\* check answered Limited(response).
C29_ExactlyOneCheck ==
    last.op = "is_limited" =>
        /\ ChecksMade("check_limit") + ChecksMade("check_custom_limit") = 1
        /\ last.key \in limiter.custom_keys =>
               /\ ChecksMade("check_custom_limit") = 1
               /\ ChecksMade("check_limit") = 0
        /\ last.key \notin limiter.custom_keys =>
               /\ ChecksMade("check_limit") = 1
               /\ ChecksMade("check_custom_limit") = 0
        /\ last.res # None <=> SingleCheckResult.kind = "Limited"
        /\ last.res # None => last.res = Some(SingleCheckResult.response)

\* the custom check of a registered key answered NotApplicable and the call
\* returned None without a check of the global limit
C29_Witness ==
    /\ last.op = "is_limited"
    /\ last.key = "registered"
    /\ last.key \in limiter.custom_keys
    /\ last.custom_result.kind = "NotApplicable"
    /\ last.res = None
    /\ last.calls = << <<"is_custom_key", "registered", 0>>,
                       <<"check_custom_limit", "registered", last.count>> >>

(***************************************************************************)
(* Properties of the counter of token validation errors.                   *)
(***************************************************************************)
\* the last step is a verify_token_and_get_team call that returned
\* TokenValidationError
VerifyFailed ==
    /\ last.op = "verify"
    /\ ~last.res.ok

\* the causes that mean that no team has the token
NotFoundCauses == {"negative_cache", "RowNotFound"}

\* the reason labels under which the call has incremented
\* TOKEN_VALIDATION_ERRORS_COUNTER
ReasonsCounted ==
    {last.metrics[i][2] : i \in {j \in DOMAIN last.metrics :
                                    last.metrics[j][1] = "TOKEN_VALIDATION_ERRORS_COUNTER"}}

ValidationErrorsCounted ==
    Cardinality({j \in DOMAIN last.metrics :
                    last.metrics[j][1] = "TOKEN_VALIDATION_ERRORS_COUNTER"})

\* C31: every verify_token_and_get_team call that returns
\* TokenValidationError increments TOKEN_VALIDATION_ERRORS_COUNTER exactly
\* once, and the reason label tells the cause: token_not_found when no team
\* has the token, another label when a backend failed.
C31_ErrorCounterTellsCause ==
    VerifyFailed =>
        /\ ValidationErrorsCounted = 1
        /\ last.cause \in NotFoundCauses => ReasonsCounted = {"token_not_found"}
        /\ last.cause \notin NotFoundCauses => "token_not_found" \notin ReasonsCounted

(***************************************************************************)
(* Properties of the negative-cache hit of verify_token_and_get_team.      *)
(***************************************************************************)
\* the step is a call that the negative cache has short-circuited
NegativeHitStep ==
    /\ last'.op = "verify"
    /\ last'.step = "check"

\* the log `after` is the log `before` with team_cache_source set to the
\* label of the negative cache, and with every other field as it was
OnlySourceSet(before, after) ==
    after = [before EXCEPT !.team_cache_source = Some("negative_cache")]

\* C32: a call that the negative cache short-circuits sets the active log's
\* team_cache_source to "negative_cache", increments
\* TEAM_NEGATIVE_CACHE_HIT_COUNTER once and changes no other field of any
\* canonical log: the scopes below the active one, the logs of other tasks
\* and the fragments of the threads stay as they were, and a caller with no
\* active log changes nothing.
C32_NegativeHitSetsOnlySource ==
    [][NegativeHitStep =>
          LET t == last'.who
              th == last'.thread
          IN /\ Increments(last'.metrics, "TEAM_NEGATIVE_CACHE_HIT_COUNTER", "") = 1
             /\ \A u \in Tasks \ {t} : CANONICAL_LOG'[u] = CANONICAL_LOG[u]
             /\ \A o \in Threads \ {th} : RAYON_CANONICAL_LOG'[o] = RAYON_CANONICAL_LOG[o]
             /\ Len(CANONICAL_LOG'[t]) = Len(CANONICAL_LOG[t])
             /\ IF CANONICAL_LOG[t] # <<>>
                THEN /\ Pop(CANONICAL_LOG'[t]) = Pop(CANONICAL_LOG[t])
                     /\ OnlySourceSet(Top(CANONICAL_LOG[t]), Top(CANONICAL_LOG'[t]))
                     /\ RAYON_CANONICAL_LOG'[th] = RAYON_CANONICAL_LOG[th]
                ELSE IF RAYON_CANONICAL_LOG[th] # None
                THEN OnlySourceSet(RAYON_CANONICAL_LOG[th][1], RAYON_CANONICAL_LOG'[th][1])
                ELSE RAYON_CANONICAL_LOG'[th] = None]_vars

\* the task in a scope was short-circuited: its log names the negative
\* cache, holds no error code and the hit is counted once
C32_Witness ==
    /\ last.op = "verify" /\ last.step = "check"
    /\ last.who = "t1"
    /\ last.token \in team_negative_cache
    /\ Top(CANONICAL_LOG["t1"]).team_cache_source = Some("negative_cache")
    /\ Top(CANONICAL_LOG["t1"]).error_code = None
    /\ Increments(last.metrics, "TEAM_NEGATIVE_CACHE_HIT_COUNTER", "") = 1

(***************************************************************************)
(* Properties of the errors of get_flags_from_cache_or_pg.                 *)
(***************************************************************************)
\* the step is a call of get_flags_from_cache_or_pg
FetchFlagsStep == last'.op = "fetch_flags"

\* the tier that answered the last call answered with a payload that is no
\* flag list
PayloadMalformed(l) ==
    \/ l.r1 = "malformed"
    \/ ~Answers(l.r1) /\ l.r2 = "malformed"

\* the error of the loader or of the parser in the call that `l` records
TypedError(l) ==
    IF PayloadMalformed(l) THEN "DataParsingErrorWithContext"
    ELSE IF l.fault = "unavailable" THEN "DatabaseUnavailable"
    ELSE IF l.fault = "timeout" THEN "TimeoutError"
    ELSE "Internal"

\* the loader or the parser has failed in the call that `l` records
LoaderOrParseFailed(l) ==
    \/ PayloadMalformed(l)
    \/ ~Answers(l.r1) /\ ~Answers(l.r2) /\ (l.fault # "none" \/ ~l.serOk)

\* C33: get_flags_from_cache_or_pg leaves the negative cache as it was and
\* issues no operation to it, whatever the outcome; when the loader or the
\* parser fails, the call returns that error as it is: it is no
\* TokenValidationError, and the loader has been invoked at most once and
\* each tier read at most once.
C33_FetchFlagsKeepsNegativeCacheAndError ==
    [][FetchFlagsStep =>
          /\ team_negative_cache' = team_negative_cache
          /\ \A i \in DOMAIN last'.calls : last'.calls[i] \in {TierRead("Redis"), TierRead("S3")}
          /\ Len(last'.calls) <= 2
          /\ last'.loads <= 1
          /\ LoaderOrParseFailed(last') <=> ~last'.res.ok
          /\ LoaderOrParseFailed(last') =>
                 /\ last'.res = Err(TypedError(last'))
                 /\ last'.res.err # "TokenValidationError"]_vars

\* with an entry in the negative cache, the loader has failed on an
\* unavailable primary store and the call has returned DatabaseUnavailable
C33_Witness ==
    /\ last.op = "fetch_flags"
    /\ team_negative_cache # {}
    /\ last.fault = "unavailable"
    /\ last.loads = 1
    /\ last.res = Err("DatabaseUnavailable")

(***************************************************************************)
(* Properties of the telemetry of a successful flags lookup.               *)
(***************************************************************************)
\* the handler has logged the source of the flags its call has returned
FlagsLogged == last.op = "handler_log_flags"

\* a cache tier has answered the call
TierAnswered == Answers(last.r1) \/ Answers(last.r2)

\* the label of the tier that has answered, or of the fallback
FlagsSourceLabel ==
    IF Answers(last.r1) THEN "redis"
    ELSE IF Answers(last.r2) THEN "s3"
    ELSE "fallback"

Cancelled(t) == dispatch[t].cancelled

\* the closure of t's invocation has run to its end
Ended(t) == dispatch[t].phase = "ended"

\* the last step has ended an invocation, by return or by panic
InvocationEnded == last.op \in {"invocation_end", "invocation_panic"}

\* the step changes the log of task u by an operation of u's own request
\* only, and a merge adds what u's own invocation has accumulated
OwnChange(u) ==
    CANONICAL_LOG'[u] # CANONICAL_LOG[u] =>
        /\ last'.who = u
        /\ last'.op \in {"request_start", "join", "cancel", "request_end"}
        /\ last'.op = "join" =>
               /\ ~Cancelled(u)
               /\ dispatch[u].fragment = Some(dispatch[u].applied)
               /\ Top(CANONICAL_LOG'[u]) =
                      merge_rayon_delta(Top(CANONICAL_LOG[u]), dispatch[u].applied)

\* C35: when a request is cancelled while its pool invocation is
\* outstanding, the invocation runs to its end; its fragment is merged into
\* no log: the cancelled task has no log any more and every change of
\* another request's log is that request's own, a merge adding only what its
\* own invocation has accumulated; the guard leaves the slot of the thread
\* empty when the invocation ends, by return or by panic, and an invocation
\* that begins on a thread begins with a zeroed fragment.
C35_CancelledInvocationEndsUnmerged ==
    /\ [](/\ InvocationEnded =>
                /\ RAYON_CANONICAL_LOG[last.thread] = None
                /\ guards[last.thread] = 0
          /\ last.op = "invocation_install" =>
                RAYON_CANONICAL_LOG[last.thread] = Some(FlagsCanonicalLogLine_default)
          /\ \A t \in Tasks : Cancelled(t) => CANONICAL_LOG[t] = <<>>)
    /\ [][\A u \in Tasks : OwnChange(u)]_vars
    /\ \A t \in Tasks : Cancelled(t) ~> Ended(t)

\* the invocation of the cancelled request of t1 has ended on w1 with a
\* counted fragment, and the invocation of t2's request, whose log is
\* untouched, has begun on the same thread from a zeroed fragment
C35_Witness ==
    /\ Cancelled("t1") /\ Ended("t1")
    /\ dispatch["t1"].thread = "w1"
    /\ dispatch["t1"].fragment # None
    /\ dispatch["t1"].fragment[1].property_cache_hits = 1
    /\ CANONICAL_LOG["t1"] = <<>>
    /\ last.op = "invocation_install" /\ last.who = "t2" /\ last.thread = "w1"
    /\ RAYON_CANONICAL_LOG["w1"] = Some(FlagsCanonicalLogLine_default)
    /\ CANONICAL_LOG["t2"] = << FlagsCanonicalLogLine_new(<<"t2", 1>>, "10.0.0.1") >>

(***************************************************************************)
(* Properties of the reach of a task-scoped log.                           *)
(***************************************************************************)
\* C36: the log of a scope is reached from its own task only. A
\* with_canonical_log call leaves the scopes of every task other than the
\* caller as they were: a call made on a pool thread, in no task, or in a
\* task that is inside no scope of its own (such as a task spawned by the
\* owner) changes the fragment of its thread if the thread holds one and
\* nothing otherwise; a call made inside a scope changes the innermost log of
\* the caller's own scopes.
C36_ScopeReachedFromOwnerOnly ==
    [][ last'.op = "with_log" =>
          LET c == last'.who
              slot == RAYON_CANONICAL_LOG[last'.thread]
              own == ScopeOf(CANONICAL_LOG, c)
          IN /\ \A u \in Tasks \ {c} : CANONICAL_LOG'[u] = CANONICAL_LOG[u]
             /\ \A o \in Threads \ {last'.thread} :
                    RAYON_CANONICAL_LOG'[o] = RAYON_CANONICAL_LOG[o]
             /\ Len(own) = 0 =>
                    /\ CANONICAL_LOG' = CANONICAL_LOG
                    /\ RAYON_CANONICAL_LOG'[last'.thread] =
                           IF slot # None THEN Some(ApplyMut(last'.mut, slot[1]))
                           ELSE None
             /\ Len(own) > 0 =>
                    /\ CANONICAL_LOG'[c] = [own EXCEPT ![Len(own)] = ApplyMut(last'.mut, @)]
                    /\ Pop(CANONICAL_LOG'[c]) = Pop(own)
                    /\ RAYON_CANONICAL_LOG' = RAYON_CANONICAL_LOG ]_vars

\* while both tasks are inside a scope, code on a pool thread has counted a
\* hit: the fragment of the thread holds it and neither scope does
C36_Witness ==
    /\ last.op = "with_log"
    /\ last.who = NoTask
    /\ last.mut.kind = "add"
    /\ \A t \in Tasks : /\ Len(CANONICAL_LOG[t]) = 1
                        /\ Top(CANONICAL_LOG[t]).property_cache_hits = 0
    /\ RAYON_CANONICAL_LOG[last.thread] # None
    /\ RAYON_CANONICAL_LOG[last.thread][1].property_cache_hits = 1

(***************************************************************************)
(* Properties of nested installs on one pool thread.                       *)
(***************************************************************************)
\* the step is made by operation `op` on a pool thread
PoolStep(op) == last'.op = op

\* the slot of the thread of the step, before and after it
SlotBefore == RAYON_CANONICAL_LOG[last'.thread]
SlotAfter == RAYON_CANONICAL_LOG'[last'.thread]

\* C37: the slot of a thread holds one fragment at most and a guard clears
\* whatever it holds. An install made while an earlier invocation's fragment
\* is installed replaces it by a zeroed one, so the counters accumulated so
\* far are discarded; the drop of the inner guard leaves the slot empty
\* although the outer guard is still alive; from then on a
\* with_canonical_log call of the outer invocation changes nothing and its
\* take returns None.
C37_NestedInstallDiscardsOuter ==
    [][ /\ PoolStep("install") => SlotAfter = Some(FlagsCanonicalLogLine_default)
        /\ PoolStep("guard_drop") => SlotAfter = None
        /\ (PoolStep("with_log") /\ SlotBefore = None) =>
               RAYON_CANONICAL_LOG' = RAYON_CANONICAL_LOG
        /\ (PoolStep("take") /\ SlotBefore = None) =>
               /\ last'.taken = None
               /\ SlotAfter = None
        /\ (PoolStep("take") /\ SlotBefore # None) => last'.taken = SlotBefore
      ]_vars

\* the outer invocation had counted when the inner one installed its
\* fragment; the inner guard has dropped over that fragment: the outer guard
\* is alive and the slot is empty
C37_Witness ==
    /\ last.op = "guard_drop"
    /\ last.phase = "open"
    /\ last.after = "counted"
    /\ guards[last.thread] = 1
    /\ RAYON_CANONICAL_LOG[last.thread] = None

(***************************************************************************)
(* Properties of concurrent calls for one unknown token.                   *)
(***************************************************************************)
\* the tasks whose call has returned, and those whose call has invoked the
\* reader (or is awaiting it)
Done == {t \in Tasks : returned[t] # None}
Readers == {t \in Tasks : pending[t] # None \/ (returned[t] # None /\ returned[t][1].read)}
AllReturned == Done = Tasks

\* every lookup that was made has reached the primary store, which has
\* answered that it has no such token
AuthoritativelyUnknown ==
    \A t \in Done : returned[t][1].cause \in NotFoundCauses

\* what one call, made alone, leaves in the negative cache
AfterSingleCall ==
    verify_token_and_get_team_match({}, UnknownToken, Err("RowNotFound"),
                                    UnknownToken).cache

\* C38: with the calls of all tasks for one unknown token interleaved in
\* every way, each call returns TokenValidationError; once all have
\* returned, at least one and at most all of them have invoked the reader,
\* a call is short-circuited only by an entry that an earlier reader's call
\* has inserted, and when the primary store has answered every lookup the
\* negative cache holds what a single call leaves: the token, once.
C38_ConcurrentCallsConverge ==
    /\ \A t \in Done : returned[t][1].res = Err("TokenValidationError")
    /\ \A t \in Done : ~returned[t][1].read =>
           \E u \in Done : returned[u][1].read /\ returned[u][1].cause = "RowNotFound"
    /\ Done # {} => Cardinality(Readers) >= 1
    /\ Cardinality(Readers) <= Cardinality(Tasks)
    /\ (AllReturned /\ AuthoritativelyUnknown) =>
           /\ team_negative_cache = AfterSingleCall
           /\ team_negative_cache = {UnknownToken}

\* both calls have passed the check before either has inserted: both have
\* invoked the reader, both have returned the error, the token is cached once
C38_Witness ==
    /\ AllReturned
    /\ \A t \in Tasks : returned[t][1].read /\ returned[t][1].cause = "RowNotFound"
    /\ Cardinality(Readers) = 2
    /\ team_negative_cache = {UnknownToken}

(***************************************************************************)
(* Properties of the life of a negative-cache entry.                       *)
(***************************************************************************)
\* the step is the start of a call for a token that the negative cache holds
CallForCachedToken ==
    /\ last'.op \in {"verify", "verify_pending"}
    /\ last'.step = "check"
    /\ last'.token \in team_negative_cache

\* the step inserts another token into the full negative cache, which
\* evicts an entry to make room
EvictedByInsert(token) ==
    /\ last'.op = "verify"
    /\ last'.step = "lookup"
    /\ last'.token # token
    /\ last'.token \notin team_negative_cache
    /\ last'.token \in team_negative_cache'
    /\ Cardinality(team_negative_cache) = NegCapacity

\* C39: no call of verify_token_and_get_team removes a negative-cache entry:
\* an entry leaves only by expiry or by the eviction that makes room for
\* another token's entry, and while a token is cached every call that
\* begins for it returns TokenValidationError without a lookup, also when a
\* cache tier or the primary store has come to know the token.
C39_NegativeEntryStaysUntilExpiry ==
    [][ /\ \A token \in team_negative_cache :
              token \notin team_negative_cache' =>
                  \/ last'.op = "expire" /\ last'.token = token
                  \/ EvictedByInsert(token)
        /\ CallForCachedToken =>
              /\ last'.op = "verify"
              /\ last'.res = Err("TokenValidationError")
              /\ last'.cause = "negative_cache"
              /\ team_negative_cache' = team_negative_cache
              /\ pending' = pending
      ]_vars

\* a call for a cached token that the primary store and the cache tiers
\* now know has returned the error, and the entry is still there
C39_Witness ==
    /\ last.op = "verify"
    /\ last.step = "check"
    /\ last.token \in pgTeams
    /\ last.token \in cached
    /\ last.token \in team_negative_cache
    /\ last.res = Err("TokenValidationError")

(***************************************************************************)
(* Properties of the re-entrant use of with_canonical_log.                 *)
(***************************************************************************)
\* C40: a with_canonical_log call made from within a mutator that is itself
\* running under with_canonical_log, in a task scope or on a thread with an
\* installed fragment, completes without panicking, and the exclusive
\* borrow of the log is released when the mutator returns.
C40_ReentrantWithLogCompletes ==
    last.op = "with_log_reentrant" =>
        /\ ~last.panicked
        /\ ~last.borrowed

====
